---- MODULE Spec2Model ----
(***************************************************************************)
(* Model of the five-layer validation pipeline of agi-cli-platform         *)
(* (src/agi-cli-platform/src/enhanced_validator.py) together with the      *)
(* parts of the sandbox and of the provider router that the pipeline       *)
(* depends on.  One validation pass is a sequence of steps: Start, the     *)
(* five layers in source order, and Finalize, which builds the returned    *)
(* ValidationResult.                                                       *)
(***************************************************************************)
EXTENDS Integers, Sequences, FiniteSets, TLC

\* ------------------------------------------------------------------------
\* Bounds of the model
\* ------------------------------------------------------------------------
\* largest number of suspicious patterns one code text matches
MaxMatched == 1
\* largest number of scanned syntax-tree nodes in one code text
MaxNodes == 1
\* largest number of query calls one thread makes to the provider
MaxCallsPerThread == 2
\* the most calls of execute_code_safely on one sandbox
MaxExecutions == 2
\* the most invocations of the evolve command
MaxInvocations == 2
\* the most calls and imports of a code given to scan_code alone
MaxScanned == 2
\* the most provider names in config llm.providers
MaxConfigured == 2

VARIABLES
    pc,                 \* position inside validate_code_comprehensive
    code,               \* the code argument of the running pass
    config,             \* ConfigManager.config
    docker_client,      \* DockerSandbox.docker_client: "client" or "None"
    fallback_order,     \* MultiProviderLLM.fallback_order
    security_score,     \* local security_score
    issues,             \* local issues
    warnings,           \* local warnings
    layer_results,      \* local layer_results (a dict: its DOMAIN grows)
    llm_response,       \* what llm_integration.query gave to layer 3
    execution_result,   \* local execution_result: <<>> is None
    result,             \* the returned ValidationResult: <<>> before return
    providers,          \* MultiProviderLLM.providers: name -> provider
    router_pc,          \* position inside query_with_fallback
    max_retries,        \* argument max_retries of the running request
    provider_index,     \* how many names the outer loop has taken
    attempt,            \* loop variable attempt of the inner loop
    last_error,         \* local last_error
    returned_response,  \* the returned LLMResponse: <<>> before return
    provider_response,  \* local response, what provider.query gave last:
                        \* <<>> before the first call
    calls,              \* provider.query calls of the running request,
                        \* each with the provider called and its success
    sleeps,             \* time.sleep(1) calls of the running request
    stats,              \* one provider's _request_count, _error_count and
                        \* _total_response_time
    threads,            \* the callers of that provider's query: where each
                        \* one is, and its locals
    finished,           \* what the query calls that have returned add up to
    sandbox_pc,         \* position inside DockerSandbox.execute_code_safely
    executions,         \* execute_code_safely calls made on the sandbox
    temp_dirs,          \* the temporary directories that exist
    containers,         \* the containers that exist on the Docker host
    container_runs,     \* docker_client.containers.run calls made
    sandbox_result,     \* the returned ExecutionResult: <<>> before return
    evolve_pc,          \* position inside the evolve command
    invocations,        \* evolve invocations made
    validation_enabled, \* config code_generation.validation_enabled
    execute,            \* option --execute of the running invocation
    save,               \* option --save of the running invocation
    generated_code,     \* local generated_code: <<>> is None
    validate_calls,     \* the validate_code calls of the running invocation:
                        \* the code given, what the LLM check did if it
                        \* was reached, and the value returned
    history,            \* the codes HistoryManager.save_command was given
    command_registry,   \* the codes CommandManager.save_command was given
    executed,           \* the codes CodeGenerator.execute_code was given
    self_security_violations,  \* ASTSecurityScanner.security_violations of the one
                        \* scanner of the orchestrator: the list it refers to
    lists,              \* the list objects made by the scanner, by identity
    requests,           \* the concurrent validation requests: where each
                        \* one is in layer 2, and its locals
    scanned_code,       \* the code argument of a scan_code call made alone
    scan_outcome,        \* what that call returned or raised: <<>> before
    use_direct_api,  \* config llm.use_direct_api
    llm_providers,  \* config llm.providers
    query_pc,  \* position inside LLMIntegration.query
    query_index,  \* how many configured names the loop has taken
    tried,  \* the provider functions called by the running query, each with what happened to its call
    query_returned,  \* what query returned: <<>> before the return, << <<>> >> for None
    history_config,  \* config history, read once by HistoryManager.__init__
    history_data,  \* HistoryManager.history_data, the entries in list order
    code_files,  \* the ids whose code file exists in the history directory
    history_clock,  \* how many operations have taken an id and a timestamp
    history_returned  \* what the last HistoryManager operation returned

validator_vars == <<pc, code, config, docker_client, security_score, issues,
                    warnings, layer_results, llm_response, execution_result,
                    result>>

\* the locals of one query_with_fallback request
request_vars == <<max_retries, provider_index, attempt, last_error,
                  returned_response, provider_response, calls, sleeps>>

router_vars == <<providers, router_pc, request_vars>>

\* the statistics of one provider and the threads calling its query
stats_vars == <<stats, threads, finished>>

\* one DockerSandbox, its host and the running execute_code_safely call
sandbox_vars == <<sandbox_pc, executions, temp_dirs, containers, container_runs,
                  sandbox_result>>

\* the evolve command, the history, the registry and what was executed
evolve_vars == <<evolve_pc, invocations, validation_enabled, execute, save,
                 generated_code, validate_calls, history, command_registry,
                 executed>>

\* the shared scanner and the requests that use it at the same time
scan_vars == <<self_security_violations, lists, requests>>

\* one scan_code call on a scanner nobody else uses
scan_alone_vars == <<scanned_code, scan_outcome>>

\* one LLMIntegration and its running query call
query_vars == <<use_direct_api, llm_providers, query_pc, query_index, tried, query_returned>>

\* one HistoryManager, its directory and its configuration
history_manager_vars == <<history_config, history_data, code_files, history_clock, history_returned>>

vars == <<validator_vars, fallback_order, router_vars, stats_vars, sandbox_vars,
          evolve_vars, scan_vars, scan_alone_vars,
          query_vars,
          history_manager_vars>>

\* what a step of the validator, of the router, of a provider call leaves
\* alone
outside_validator == <<router_vars, stats_vars, sandbox_vars, evolve_vars, scan_vars,
    scan_alone_vars,
    query_vars,
    history_manager_vars>>
outside_router == <<validator_vars, stats_vars, sandbox_vars, evolve_vars, scan_vars,
    scan_alone_vars,
    query_vars,
    history_manager_vars>>
outside_stats == <<validator_vars, fallback_order, router_vars, sandbox_vars,
                   evolve_vars, scan_vars,
    scan_alone_vars,
    query_vars,
    history_manager_vars>>
outside_sandbox == <<validator_vars, fallback_order, router_vars, stats_vars,
                     evolve_vars, scan_vars,
    scan_alone_vars,
    query_vars,
    history_manager_vars>>
outside_evolve == <<validator_vars, fallback_order, router_vars, stats_vars,
                    sandbox_vars, scan_vars,
    scan_alone_vars,
    query_vars,
    history_manager_vars>>
outside_scan_alone == <<validator_vars, fallback_order, router_vars, stats_vars,
    sandbox_vars, evolve_vars, scan_vars,
    query_vars,
    history_manager_vars>>
outside_scan == <<validator_vars, fallback_order, router_vars, stats_vars,
                  sandbox_vars, evolve_vars,
    scan_alone_vars,
    query_vars,
    history_manager_vars>>
outside_query == <<validator_vars,
    fallback_order,
    router_vars,
    stats_vars,
    sandbox_vars,
    evolve_vars,
    scan_vars,
    scan_alone_vars,
    history_manager_vars>>
outside_history_manager == <<validator_vars,
    fallback_order,
    router_vars,
    stats_vars,
    sandbox_vars,
    evolve_vars,
    scan_vars,
    scan_alone_vars,
    query_vars>>

\* ------------------------------------------------------------------------
\* Dictionaries
\* ------------------------------------------------------------------------
EmptyDict == [k \in {} |-> "None"]

\* d[k] = v of a Python dict
DictSet(d, k, v) == [x \in DOMAIN d \cup {k} |-> IF x = k THEN v ELSE d[x]]

\* d.get(k, default)
DictGet(d, k, default) == IF k \in DOMAIN d THEN d[k] ELSE default

\* ConfigManager.get(key, default) over a configuration that holds `conf`
ConfigGet(conf, key, default) == DictGet(conf, key, default)

\* ------------------------------------------------------------------------
\* Exceptions
\* ------------------------------------------------------------------------
\* classes of the exceptions the stages can throw; all derive from Exception
ExceptionClasses == {"TypeError", "ValueError", "RecursionError", "SyntaxError", "RuntimeError"}

\* variant: the handler names one exception class only
CaughtOnlySyntaxError(e) == e = "SyntaxError"

\* `except Exception` of the orchestrator catches e
CaughtByExceptException(e) == e \in ExceptionClasses

\* a value returned normally, and an exception thrown
Returned(v) == [raised |-> FALSE, exc |-> "", text |-> "", value |-> v]
Raised(e, t) == [raised |-> TRUE, exc |-> e, text |-> t, value |-> <<>>]

\* Python's `"Potential" in s or "Warning" in s` over the texts of the model
ParseErrorTexts ==
    {"invalid syntax",
     "Missing parentheses in call to 'print'. Did you mean print(Warning)?"}

ContainsPotentialOrWarning(s) ==
    s \in {"Potential infinite loop detected",
           "Missing parentheses in call to 'print'. Did you mean print(Warning)?"}

\* an issue or warning is a sequence of strings: the fixed text, then the
\* values formatted into it
\* variant: no message is taken for a warning
MessageContainsMarker_never(msg) == FALSE

MessageContainsMarker(msg) ==
    \E i \in 1..Len(msg) : ContainsPotentialOrWarning(msg[i])

\* the fixed penalties of the stages: for the stage's ordinary failure, and
\* for an exception that reaches the stage's `except Exception` block
\* variants of the penalties: the ordinary penalty taken for the exception
\* one, the exception penalty taken for the ordinary one, a sign slip
ast_exception_penalty_as_ordinary == 20 + 5
llm_penalty_as_exception == 20 - 5
complexity_issue_penalty_negated == 0 - 10
default_min_security_score_above_full == 100 + 1

sanitization_penalty == 30
sanitization_exception_penalty == 20
ast_penalty == 25
ast_exception_penalty == 20
llm_penalty == 20
llm_exception_penalty == 15
complexity_issue_penalty == 10
complexity_exception_penalty == 10
sandbox_penalty == 15
sandbox_exception_penalty == 10
score_too_low_threshold == 70
default_min_security_score == 70

\* ------------------------------------------------------------------------
\* The code under validation
\* ------------------------------------------------------------------------
\* A code text is described by what the layers read from it:
\*   kind     "ok": a string that parses and that the visitor can walk;
\*            "deep": a string that parses, but whose tree is nested deeper
\*                    than the interpreter's recursion limit;
\*            "parse_error": a string on which ast.parse raises `exc`
\*                    (SyntaxError, or RecursionError while the tree is
\*                    built) with text `err`;
\*            "nonstr": not a string at all (None)
\*   matched  the indexes of the suspicious patterns found in the text
\*   nodes    the Call / Import / ImportFrom nodes of the tree in visit order
\*   metrics  what the complexity analyzer counts
Name(id) == [type |-> "Call", func |-> "Name", names |-> <<id>>]
Attribute(value_id, attr) == [type |-> "Call", func |-> "Attribute", names |-> <<value_id, attr>>]
Import(names) == [type |-> "Import", func |-> "", names |-> names]
ImportFrom(module) == [type |-> "ImportFrom", func |-> "", names |-> <<module>>]

NodeChoices ==
    {Name("eval"), Name("print"), Attribute("os", "system"),
     Import(<<"os">>), Import(<<"numpy">>), ImportFrom("json")}

SeqsUpTo(S, n) == UNION {[1..k -> S] : k \in 0..n}

NoMetrics == [lines |-> 0, functions |-> 0, classes |-> 0, loops |-> 0,
              conditionals |-> 0, while_true_no_break |-> 0]

MetricChoices ==
    {[lines |-> l, functions |-> f, classes |-> 0, loops |-> w,
      conditionals |-> c, while_true_no_break |-> w] :
        l \in {1, 101}, f \in {0, 6}, c \in {0, 11}, w \in {0, 1}}

\* the texts of the model contain only a recursive delete ("rm -rf") and a
\* privilege escalation ("sudo "), patterns 1 and 4 of suspicious_patterns
MatchedChoices == {m \in SUBSET {1, 4} : Cardinality(m) <= MaxMatched}

Codes ==
    {[kind |-> "ok", exc |-> "", err |-> "", matched |-> m, nodes |-> n, metrics |-> x] :
        m \in MatchedChoices, n \in SeqsUpTo(NodeChoices, MaxNodes), x \in MetricChoices}
    \cup
    {[kind |-> "deep", exc |-> "", err |-> "", matched |-> m, nodes |-> <<>>, metrics |-> x] :
        m \in MatchedChoices, x \in {y \in MetricChoices : y.lines = 1 /\ y.conditionals = 0}}
    \cup
    {[kind |-> "parse_error", exc |-> e[1], err |-> e[2], matched |-> m, nodes |-> <<>>, metrics |-> NoMetrics] :
        m \in MatchedChoices,
        e \in ({"SyntaxError"} \X ParseErrorTexts)
              \cup {<<"RecursionError", "maximum recursion depth exceeded during ast construction">>}}
    \cup
    {[kind |-> "nonstr", exc |-> "TypeError", err |-> "compile() arg 1 must be a string, bytes or AST object",
      matched |-> {}, nodes |-> <<>>, metrics |-> NoMetrics]}

\* ------------------------------------------------------------------------
\* Layer 1: InputSanitizer
\* ------------------------------------------------------------------------
UserInputs == {"", "list my files", "please eval(x)"}

\* InputSanitizer.sanitize_user_input over the inputs of the model: a match
\* of a dangerous pattern is replaced by the placeholder
sanitize_user_input(user_input) ==
    IF user_input = "please eval(x)" THEN "please [FILTERED]x)" ELSE user_input

suspicious_patterns ==
    << [idx |-> 1, description |-> "Dangerous file deletion command"],
       [idx |-> 2, description |-> "Disk formatting command"],
       [idx |-> 3, description |-> "File deletion command"],
       [idx |-> 4, description |-> "Privilege escalation"],
       [idx |-> 5, description |-> "Dangerous permission change"] >>

PatternIssue(p) == <<"Suspicious pattern detected", p.description>>

\* InputSanitizer.validate_llm_response: re.search on a non-string raises
validate_llm_response(response) ==
    IF response.kind = "nonstr"
    THEN Raised("TypeError", "expected string or bytes-like object")
    ELSE LET found == SelectSeq(suspicious_patterns, LAMBDA p : p.idx \in response.matched)
             found_issues == [i \in 1..Len(found) |-> PatternIssue(found[i])]
         IN  Returned([valid |-> Len(found_issues) = 0, issues |-> found_issues])

\* ------------------------------------------------------------------------
\* Layer 2: ASTSecurityScanner
\* ------------------------------------------------------------------------
dangerous_functions == {"eval", "exec", "compile", "__import__", "open", "file", "input", "raw_input"}
\* variant: os is not among the dangerous modules
dangerous_modules_without_os == {"sys", "subprocess", "shutil", "socket", "urllib", "requests", "http"}

dangerous_modules == {"os", "sys", "subprocess", "shutil", "socket", "urllib", "requests", "http"}
default_allowed_imports ==
    {"click", "pathlib", "typing", "dataclasses", "json", "yaml", "datetime",
     "time", "math", "random", "string", "collections"}

\* variant: only the attribute branch flags anything
visit_Call_modules_only(node) ==
    IF node.func = "Attribute" /\ node.names[1] \in dangerous_modules
    THEN << <<"Dangerous module usage", node.names[1], node.names[2]>> >>
    ELSE <<>>

visit_Call(node) ==
    IF node.func = "Name"
    THEN IF node.names[1] \in dangerous_functions
         THEN << <<"Dangerous function call", node.names[1]>> >>
         ELSE <<>>
    ELSE IF node.func = "Attribute" /\ node.names[1] \in dangerous_modules
         THEN << <<"Dangerous module usage", node.names[1], node.names[2]>> >>
         ELSE <<>>

RECURSIVE visit_Import_aliases(_, _)
visit_Import_aliases(names, allowed_imports) ==
    IF names = <<>> THEN <<>>
    ELSE LET alias == Head(names)
             here == IF alias \in dangerous_modules
                     THEN << <<"Dangerous import", alias>> >>
                     ELSE IF alias \notin allowed_imports
                          THEN << <<"Import not in allowed list", alias>> >>
                          ELSE <<>>
         IN  here \o visit_Import_aliases(Tail(names), allowed_imports)

visit_Import(node, allowed_imports) == visit_Import_aliases(node.names, allowed_imports)

\* node.module is None for `from . import x`: modelled as the empty name
visit_ImportFrom(node, allowed_imports) ==
    LET module == node.names[1]
    IN  IF module \in dangerous_modules
        THEN << <<"Dangerous from import", module>> >>
        ELSE IF module # "" /\ module \notin allowed_imports
             THEN << <<"From import not in allowed list", module>> >>
             ELSE <<>>

\* variant: the scan stops at the first node that has a violation
RECURSIVE visit_until_first_match(_, _)
visit_until_first_match(nodes, allowed_imports) ==
    IF nodes = <<>> THEN <<>>
    ELSE LET node == Head(nodes)
             here == CASE node.type = "Call" -> visit_Call(node)
                       [] node.type = "Import" -> visit_Import(node, allowed_imports)
                       [] node.type = "ImportFrom" -> visit_ImportFrom(node, allowed_imports)
                       [] OTHER -> <<>>
         IN  IF here # <<>> THEN here
             ELSE visit_until_first_match(Tail(nodes), allowed_imports)

RECURSIVE visit(_, _)
visit(nodes, allowed_imports) ==
    IF nodes = <<>> THEN <<>>
    ELSE LET node == Head(nodes)
             here == CASE node.type = "Call" -> visit_Call(node)
                       [] node.type = "Import" -> visit_Import(node, allowed_imports)
                       [] node.type = "ImportFrom" -> visit_ImportFrom(node, allowed_imports)
                       [] OTHER -> <<>>
         IN  here \o visit(Tail(nodes), allowed_imports)

\* ASTSecurityScanner.scan_code: only SyntaxError is caught here
scan_code(c, allowed_imports) ==
    CASE c.kind = "ok" ->
           LET security_violations == visit(c.nodes, allowed_imports)
           IN  Returned([valid |-> Len(security_violations) = 0, issues |-> security_violations])
      [] c.kind = "deep" -> Raised("RecursionError", "maximum recursion depth exceeded")
      [] c.kind = "parse_error" /\ c.exc = "SyntaxError" ->
           Returned([valid |-> FALSE, issues |-> << <<"Syntax error", c.err>> >>])
      [] OTHER -> Raised(c.exc, c.err)

\* ------------------------------------------------------------------------
\* Layer 3: LLMSecurityValidator over MultiProviderLLM.query
\* ------------------------------------------------------------------------
\* An Optional[str] is <<>> for None and <<s>> for the string s.
\* variant: the response is compared as it came
StripUpper_identity(s) == s

\* str.strip().upper() over the response texts of the model
StripUpper(s) ==
    CASE s = " safe\n" -> "SAFE"
      [] s = "It depends" -> "IT DEPENDS"
      [] OTHER -> s

ResponseTexts == {"SAFE", " safe\n", "UNSAFE", "It depends", ""}

\* what one call of llm_integration.query can give while a provider is
\* available: a text, None after every provider failed, or an exception
QueryOutcomes ==
    {Returned(<<t>>) : t \in ResponseTexts}
    \cup {Returned(<<>>), Raised("RuntimeError", "connection reset")}

\* what the follow-up query for details can give
DetailOutcomes ==
    {Returned(<<"uses dynamic evaluation">>), Returned(<<>>),
     Raised("RuntimeError", "connection reset")}

\* MultiProviderLLM.query: None when query_with_fallback has no provider
\* to try, else what the providers gave
query(order, outcome) == IF order = <<>> THEN Returned(<<>>) ELSE outcome

\* Python truthiness of an Optional[str]
Truthy(opt) == opt # <<>> /\ opt # <<"">>

\* LLMSecurityValidator.validate_with_llm; first and detail are the outcomes
\* of the first query and of the follow-up query
validate_with_llm(first, detail) ==
    IF first.raised
    THEN Returned([valid |-> FALSE, issues |-> << <<"LLM validation failed", first.text>> >>])
    ELSE IF ~Truthy(first.value)
    THEN Returned([valid |-> FALSE, issues |-> << <<"LLM validation failed - no response">> >>])
    ELSE LET response == StripUpper(first.value[1])
         IN  IF response = "SAFE"
             THEN Returned([valid |-> TRUE, issues |-> <<>>])
             ELSE IF response = "UNSAFE"
             THEN Returned([valid |-> FALSE, issues |-> << <<"LLM identified security risks in code">> >>])
             ELSE IF detail.raised
             THEN Returned([valid |-> FALSE, issues |-> << <<"LLM validation failed", detail.text>> >>])
             ELSE Returned([valid |-> FALSE,
                            issues |-> << <<"LLM security concern",
                                            IF Truthy(detail.value) THEN detail.value[1]
                                            ELSE "Unknown security issue">> >>])

\* ------------------------------------------------------------------------
\* Layer 4: ComplexityAnalyzer
\* ------------------------------------------------------------------------
max_complexity == 10
max_lines == 100
max_functions == 5

Repeat(x, n) == [i \in 1..n |-> x]

\* ComplexityAnalyzer.analyze_complexity: every exception is caught inside
analyze_complexity(c) ==
    CASE c.kind \in {"ok", "deep"} ->
           LET m == c.metrics
               complexity_score == m.loops + m.conditionals + m.functions
               found ==
                   (IF m.lines > max_lines THEN << <<"Code too long", "lines">> >> ELSE <<>>)
                   \o (IF m.functions > max_functions THEN << <<"Too many functions", "functions">> >> ELSE <<>>)
                   \o (IF complexity_score > max_complexity THEN << <<"Code too complex", "score">> >> ELSE <<>>)
               found_warnings == Repeat(<<"Potential infinite loop detected">>, m.while_true_no_break)
           IN  Returned([valid |-> Len(found) = 0, issues |-> found \o found_warnings])
      [] c.kind = "parse_error" /\ c.exc = "SyntaxError" ->
           Returned([valid |-> FALSE, issues |-> << <<"Syntax error in complexity analysis", c.err>> >>])
      [] OTHER ->
           Returned([valid |-> FALSE, issues |-> << <<"Complexity analysis failed", c.err>> >>])

\* the loop of layer 4 over complexity_issues: acc is
\* [issues, warnings, security_score]
RECURSIVE SeparateComplexityIssues(_, _)
SeparateComplexityIssues(complexity_issues, acc) ==
    IF complexity_issues = <<>> THEN acc
    ELSE LET issue == Head(complexity_issues)
             next == IF MessageContainsMarker(issue)
                     THEN [acc EXCEPT !.warnings = Append(@, issue)]
                     ELSE [acc EXCEPT !.issues = Append(@, issue),
                                      !.security_score = @ - complexity_issue_penalty]
         IN  SeparateComplexityIssues(Tail(complexity_issues), next)

\* ------------------------------------------------------------------------
\* Layer 5: DockerSandbox
\* ------------------------------------------------------------------------
\* variant: the availability check always succeeds
is_available_always(client) == TRUE

\* DockerSandbox.is_available: docker_client is set only when the docker
\* module was imported and the daemon answered the ping
is_available(client) == client # "None"

\* SandboxConfig.timeout, in seconds
sandbox_timeout == 30

\* what docker_client.containers.run can do with the code: return the output
\* after `time` seconds (within the configured timeout or beyond it), or
\* raise
RunOutcomes ==
    {[raised |-> FALSE, time |-> t, text |-> "", exit_status |-> 0] : t \in {1, 31}}
    \cup {[raised |-> TRUE, time |-> 1, text |-> "Command returned non-zero exit status 1", exit_status |-> 1]}

ExecutionResult(success, error, exit_code, execution_time) ==
    [success |-> success, error |-> error, exit_code |-> exit_code,
     execution_time |-> execution_time]

\* DockerSandbox._execute_in_container
execute_in_container(run) ==
    IF ~run.raised
    THEN ExecutionResult(TRUE, <<>>, 0, 0)
    ELSE ExecutionResult(FALSE, <<"Container execution failed", run.text>>, run.exit_status, 0)

\* DockerSandbox.execute_code_safely: writing a non-string to the code file
\* raises inside the try block
execute_code_safely(client, c, run) ==
    IF ~is_available(client)
    THEN ExecutionResult(FALSE, <<"Docker sandbox not available">>, -1, 0)
    ELSE IF c.kind = "nonstr"
    THEN ExecutionResult(FALSE, <<"Sandbox execution failed", "write() argument must be str, not None">>, -1, 0)
    ELSE [execute_in_container(run) EXCEPT !.execution_time = run.time]

\* ------------------------------------------------------------------------
\* EnhancedValidator.validate_code_comprehensive
\* ------------------------------------------------------------------------
\* variant: the pass returns after the complexity analysis
StageAfter_early_return(stage) ==
    CASE stage = "L1" -> "L2"
      [] stage = "L2" -> "L3"
      [] stage = "L3" -> "L4"
      [] stage = "L4" -> "final"
      [] stage = "L5" -> "final"
      [] OTHER -> "done"

\* the statements of the pass run in source order
StageAfter(stage) ==
    CASE stage = "L1" -> "L2"
      [] stage = "L2" -> "L3"
      [] stage = "L3" -> "L4"
      [] stage = "L4" -> "L5"
      [] stage = "L5" -> "final"
      [] OTHER -> "done"

LayerNames == <<"input_sanitization", "ast_analysis", "llm_validation",
                "complexity_analysis", "sandbox_execution">>

\* variant: the complexity layer counted among the critical ones
critical_layers_with_complexity ==
    <<"input_sanitization", "ast_analysis", "llm_validation", "complexity_analysis">>

\* variant: the static scan is not among the critical layers
critical_layers_without_ast == <<"input_sanitization", "llm_validation">>

\* variant: the response check is not among the critical layers
critical_layers_without_sanitization == <<"ast_analysis", "llm_validation">>

critical_layers == <<"input_sanitization", "ast_analysis", "llm_validation">>

\* configurations the pass can run under: the key is absent, or set
Configs ==
    {EmptyDict} \cup {("validation.min_security_score" :> m) : m \in {0, 100}}

\* the bool of a Python value, as recorded in layer_results
PyBool(b) == IF b THEN "True" ELSE "False"

\* `not v` for a value of layer_results
Not(v) == v \in {"False", "None"}

\* the exception left the pass: nothing of the pass is returned
Propagate ==
    /\ pc' = "raised"
    /\ UNCHANGED <<security_score, issues, warnings, layer_results,
                   llm_response, execution_result, result>>

\* no query_with_fallback request is running
NoRequest ==
    /\ max_retries = 0
    /\ provider_index = 0
    /\ attempt = 0
    /\ last_error = ""
    /\ returned_response = <<>>
    /\ provider_response = <<>>
    /\ calls = <<>>
    /\ sleeps = 0

\* no router has been built
RouterAtRest ==
    /\ providers = EmptyDict
    /\ router_pc = "idle"
    /\ NoRequest

\* BaseLLMProvider.__init__: the counters start at zero; nobody calls
NoStats == [request_count |-> 0, error_count |-> 0, total_response_time |-> 0]

StatsAtRest ==
    /\ stats = NoStats
    /\ threads = <<>>
    /\ finished = <<>>

\* DockerSandbox.__init__: nothing has been executed
SandboxAtRest ==
    /\ sandbox_pc = "idle"
    /\ executions = 0
    /\ temp_dirs = {}
    /\ containers = {}
    /\ container_runs = 0
    /\ sandbox_result = <<>>

\* no evolve invocation was made: nothing is stored, nothing was executed
EvolveAtRest ==
    /\ evolve_pc = "idle"
    /\ invocations = 0
    /\ validation_enabled = TRUE
    /\ execute = FALSE
    /\ save = FALSE
    /\ generated_code = <<>>
    /\ validate_calls = <<>>
    /\ history = <<>>
    /\ command_registry = <<>>
    /\ executed = <<>>

\* LLMIntegration.__init__: no query was made
QueryAtRest ==
    /\ use_direct_api = TRUE
    /\ llm_providers = <<>>
    /\ query_pc = "idle"
    /\ query_index = 0
    /\ tried = <<>>
    /\ query_returned = <<>>

\* HistoryManager.__init__ over a directory without a history file
HistoryAtRest ==
    /\ history_config = EmptyDict
    /\ history_data = <<>>
    /\ code_files = {}
    /\ history_clock = 0
    /\ history_returned = <<>>

\* ASTSecurityScanner.__init__: security_violations is a new empty list;
\* no concurrent request uses the scanner, and no call is made on it alone
ScanAtRest ==
    /\ lists = << <<>> >>
    /\ self_security_violations = 1
    /\ requests = <<>>
    /\ scanned_code = <<>>
    /\ scan_outcome = <<>>

Init ==
    /\ SandboxAtRest
    /\ HistoryAtRest
    /\ QueryAtRest
    /\ EvolveAtRest
    /\ ScanAtRest
    /\ pc = "idle"
    /\ code = CHOOSE c \in Codes : c.kind = "nonstr"
    /\ config \in Configs
    /\ docker_client \in {"client", "None"}
    /\ fallback_order \in {<<>>, <<"gemini">>}
    /\ security_score = 100
    /\ issues = <<>>
    /\ warnings = <<>>
    /\ layer_results = EmptyDict
    /\ llm_response = Returned(<<>>)
    /\ execution_result = <<>>
    /\ result = <<>>
    /\ RouterAtRest
    /\ StatsAtRest

\* the call and the initialisation of its locals
Start ==
    /\ pc = "idle"
    /\ UNCHANGED outside_validator
    /\ code' \in Codes
    /\ security_score' = 100
    /\ issues' = <<>>
    /\ warnings' = <<>>
    /\ layer_results' = EmptyDict
    /\ llm_response' = Returned(<<>>)
    /\ execution_result' = <<>>
    /\ result' = <<>>
    /\ pc' = "L1"
    /\ UNCHANGED <<config, docker_client, fallback_order>>

\* Layer 1: Input Sanitization; user_input is the second argument of the call
Layer1 ==
    /\ pc = "L1"
    /\ UNCHANGED outside_validator
    /\ \E user_input \in UserInputs :
         LET sanitized_warnings ==
                 IF user_input # "" /\ sanitize_user_input(user_input) # user_input
                 THEN Append(warnings, <<"User input was sanitized">>)
                 ELSE warnings
             r == validate_llm_response(code)
         IN  IF r.raised
             THEN IF CaughtByExceptException(r.exc)
                  THEN /\ layer_results' = DictSet(layer_results, "input_sanitization", "False")
                       /\ issues' = Append(issues, <<"Input sanitization failed", r.text>>)
                       /\ security_score' = security_score - sanitization_exception_penalty
                       /\ warnings' = sanitized_warnings
                       /\ pc' = StageAfter("L1")
                       /\ UNCHANGED <<llm_response, execution_result, result>>
                  ELSE Propagate
             ELSE /\ layer_results' = DictSet(layer_results, "input_sanitization", PyBool(r.value.valid))
                  /\ issues' = IF ~r.value.valid THEN issues \o r.value.issues ELSE issues
                  /\ security_score' = IF ~r.value.valid
                                       THEN security_score - sanitization_penalty
                                       ELSE security_score
                  /\ warnings' = sanitized_warnings
                  /\ pc' = StageAfter("L1")
                  /\ UNCHANGED <<llm_response, execution_result, result>>
    /\ UNCHANGED <<code, config, docker_client, fallback_order>>

\* Layer 2: AST Security Analysis
Layer2 ==
    /\ pc = "L2"
    /\ UNCHANGED outside_validator
    /\ LET allowed_imports == ConfigGet(config, "plugins.allowed_imports", default_allowed_imports)
           r == scan_code(code, allowed_imports)
       IN  IF r.raised
           THEN IF CaughtByExceptException(r.exc)
                THEN /\ layer_results' = DictSet(layer_results, "ast_analysis", "False")
                     /\ issues' = Append(issues, <<"AST analysis failed", r.text>>)
                     /\ security_score' = security_score - ast_exception_penalty
                     /\ pc' = StageAfter("L2")
                     /\ UNCHANGED <<warnings, llm_response, execution_result, result>>
                ELSE Propagate
           ELSE /\ layer_results' = DictSet(layer_results, "ast_analysis", PyBool(r.value.valid))
                /\ issues' = IF ~r.value.valid THEN issues \o r.value.issues ELSE issues
                /\ security_score' = IF ~r.value.valid
                                     THEN security_score - ast_penalty
                                     ELSE security_score
                /\ pc' = StageAfter("L2")
                /\ UNCHANGED <<warnings, llm_response, execution_result, result>>
    /\ UNCHANGED <<code, config, docker_client, fallback_order>>

\* Layer 3: LLM Security Validation
Layer3 ==
    /\ pc = "L3"
    /\ UNCHANGED outside_validator
    /\ \E first \in QueryOutcomes, detail \in DetailOutcomes :
         LET answer == query(fallback_order, first)
             follow_up == query(fallback_order, detail)
             r == validate_with_llm(answer, follow_up)
         IN  /\ llm_response' = answer
             /\ IF r.raised
                THEN IF CaughtByExceptException(r.exc)
                     THEN /\ layer_results' = DictSet(layer_results, "llm_validation", "False")
                          /\ issues' = Append(issues, <<"LLM validation failed", r.text>>)
                          /\ security_score' = security_score - llm_exception_penalty
                          /\ pc' = StageAfter("L3")
                     ELSE /\ pc' = "raised"
                          /\ UNCHANGED <<security_score, issues, layer_results>>
                ELSE /\ layer_results' = DictSet(layer_results, "llm_validation", PyBool(r.value.valid))
                     /\ issues' = IF ~r.value.valid THEN issues \o r.value.issues ELSE issues
                     /\ security_score' = IF ~r.value.valid
                                          THEN security_score - llm_penalty
                                          ELSE security_score
                     /\ pc' = StageAfter("L3")
    /\ UNCHANGED <<code, config, docker_client, fallback_order, warnings,
                   execution_result, result>>

\* Layer 4: Complexity Analysis
Layer4 ==
    /\ pc = "L4"
    /\ UNCHANGED outside_validator
    /\ LET r == analyze_complexity(code)
       IN  IF r.raised
           THEN IF CaughtByExceptException(r.exc)
                THEN /\ layer_results' = DictSet(layer_results, "complexity_analysis", "False")
                     /\ issues' = Append(issues, <<"Complexity analysis failed", r.text>>)
                     /\ security_score' = security_score - complexity_exception_penalty
                     /\ pc' = StageAfter("L4")
                     /\ UNCHANGED <<warnings, llm_response, execution_result, result>>
                ELSE Propagate
           ELSE LET separated ==
                        IF ~r.value.valid
                        THEN SeparateComplexityIssues(r.value.issues,
                                 [issues |-> issues, warnings |-> warnings,
                                  security_score |-> security_score])
                        ELSE [issues |-> issues, warnings |-> warnings,
                              security_score |-> security_score]
                IN  /\ layer_results' = DictSet(layer_results, "complexity_analysis", PyBool(r.value.valid))
                    /\ issues' = separated.issues
                    /\ warnings' = separated.warnings
                    /\ security_score' = separated.security_score
                    /\ pc' = StageAfter("L4")
                    /\ UNCHANGED <<llm_response, execution_result, result>>
    /\ UNCHANGED <<code, config, docker_client, fallback_order>>

\* the try block of layer 5: neither is_available nor execute_code_safely
\* lets an exception out
sandbox_stage(client, c, run) ==
    IF is_available(client)
    THEN Returned(<<execute_code_safely(client, c, run)>>)
    ELSE Returned(<<>>)

\* Layer 5: Sandbox Execution
Layer5 ==
    /\ pc = "L5"
    /\ UNCHANGED outside_validator
    /\ \E run \in RunOutcomes :
         LET r == sandbox_stage(docker_client, code, run)
         IN  IF r.raised
             THEN IF CaughtByExceptException(r.exc)
                  THEN /\ layer_results' = DictSet(layer_results, "sandbox_execution", "False")
                       /\ issues' = Append(issues, <<"Sandbox validation failed", r.text>>)
                       /\ security_score' = security_score - sandbox_exception_penalty
                       /\ pc' = StageAfter("L5")
                       /\ UNCHANGED <<warnings, llm_response, execution_result, result>>
                  ELSE Propagate
             ELSE IF r.value # <<>>
             THEN LET sandbox_valid == r.value[1].success
                  IN  /\ execution_result' = r.value
                      /\ layer_results' = DictSet(layer_results, "sandbox_execution", PyBool(sandbox_valid))
                      /\ issues' = IF ~sandbox_valid
                                   THEN Append(issues, <<"Sandbox execution failed">> \o r.value[1].error)
                                   ELSE issues
                      /\ security_score' = IF ~sandbox_valid
                                           THEN security_score - sandbox_penalty
                                           ELSE security_score
                      /\ warnings' = IF sandbox_valid /\ r.value[1].execution_time > 10
                                     THEN Append(warnings, <<"Long execution time">>)
                                     ELSE warnings
                      /\ pc' = StageAfter("L5")
                      /\ UNCHANGED <<llm_response, result>>
             ELSE /\ layer_results' = DictSet(layer_results, "sandbox_execution", "None")
                  /\ warnings' = Append(warnings, <<"Docker sandbox not available - skipping execution validation">>)
                  /\ pc' = StageAfter("L5")
                  /\ UNCHANGED <<security_score, issues, llm_response, execution_result, result>>
    /\ UNCHANGED <<code, config, docker_client, fallback_order>>

SeqToSet(s) == {s[i] : i \in 1..Len(s)}

\* the number of critical layers whose recorded result is falsy or missing
critical_failures(results) ==
    Cardinality({layer \in SeqToSet(critical_layers) : Not(DictGet(results, layer, "False"))})

\* the verdict, the "score too low" issue and the returned ValidationResult
Finalize ==
    /\ pc = "final"
    /\ UNCHANGED outside_validator
    /\ LET is_valid == /\ critical_failures(layer_results) = 0
                       /\ security_score >= ConfigGet(config, "validation.min_security_score",
                                                     default_min_security_score)
           final_issues == IF security_score < score_too_low_threshold
                           THEN Append(issues, <<"Security score too low">>)
                           ELSE issues
       IN  /\ issues' = final_issues
           /\ result' = << [is_valid |-> is_valid,
                            security_score |-> security_score,
                            issues |-> final_issues,
                            warnings |-> warnings,
                            layer_results |-> layer_results,
                            execution_result |-> execution_result] >>
    /\ pc' = StageAfter("final")
    /\ UNCHANGED <<code, config, docker_client, fallback_order, security_score,
                   warnings, layer_results, llm_response, execution_result>>

Next ==
    \/ Start
    \/ Layer1
    \/ Layer2
    \/ Layer3
    \/ Layer4
    \/ Layer5
    \/ Finalize

Spec == Init /\ [][Next]_vars

\* ------------------------------------------------------------------------
\* MultiProviderLLM: the provider router
\* ------------------------------------------------------------------------
\* the keys of MultiProviderLLM.providers in insertion order
ProviderNames == <<"gemini", "openai", "anthropic", "local">>

\* position of a name in the providers dict
InsertionIndex(name) == CHOOSE i \in 1..Len(ProviderNames) : ProviderNames[i] = name

\* ProviderConfig.priority of the default configurations
default_priority ==
    [name \in SeqToSet(ProviderNames) |->
        CASE name = "gemini" -> 1
          [] name = "openai" -> 2
          [] name = "anthropic" -> 3
          [] OTHER -> 4]

\* the priorities after the user's llm.providers overrides: none, or gemini
\* moved behind openai (and level with anthropic)
PriorityChoices == {default_priority, [default_priority EXCEPT !["gemini"] = 3]}

\* a provider object: config.priority, config.enabled, api_key and, for the
\* local provider, whether its endpoint answers the health check
Provider(name, priority, enabled, api_key, reachable) ==
    [kind |-> IF name = "local" THEN "local" ELSE "remote",
     priority |-> priority, enabled |-> enabled, api_key |-> api_key,
     reachable |-> reachable]

ApiKeys == {"", "key"}

\* variant: a provider counts as available whenever it has what it needs to
\* connect, enabled or not
provider_is_available_ignoring_enabled(p) ==
    IF p.kind = "local" THEN p.reachable ELSE p.api_key # ""

\* GeminiProvider / OpenAIProvider / AnthropicProvider.is_available:
\* bool(api_key and config.enabled); LocalLLMProvider.is_available: enabled
\* and the health check answers 200
provider_is_available(p) ==
    IF p.kind = "local"
    THEN p.enabled /\ p.reachable
    ELSE p.api_key # "" /\ p.enabled

\* get_available_providers
get_available_providers(provs) ==
    {name \in DOMAIN provs : provider_is_available(provs[name])}

\* variant: the names in insertion order, whatever their priority
RECURSIVE sorted_by_insertion(_, _)
sorted_by_insertion(names, provs) ==
    IF names = {} THEN <<>>
    ELSE LET first == CHOOSE n \in names : \A m \in names :
                          InsertionIndex(n) <= InsertionIndex(m)
         IN  <<first>> \o sorted_by_insertion(names \ {first}, provs)

\* sorted(names, key=priority): ascending, and stable, so that names of equal
\* priority keep their insertion order
RECURSIVE sorted(_, _)
sorted(names, provs) ==
    IF names = {} THEN <<>>
    ELSE LET first == CHOOSE n \in names : \A m \in names :
                          \/ provs[n].priority < provs[m].priority
                          \/ /\ provs[n].priority = provs[m].priority
                             /\ InsertionIndex(n) <= InsertionIndex(m)
         IN  <<first>> \o sorted(names \ {first}, provs)

\* the value _initialize_providers and refresh_availability store in
\* fallback_order
available_sorted(provs) == sorted(get_available_providers(provs), provs)

\* the LLMResponse fields the router and its callers read; error is <<>> for
\* None, else the parts of the text
LLMResponse(provider, success, error) ==
    [provider |-> provider, success |-> success, error |-> error]

\* error texts of a failed provider.query: a server error, a rejected key,
\* a failed authentication
ErrorTexts ==
    {"API error: 500 - overloaded",
     "API error: 400 - API key not valid",
     "API error: 401 - Authentication failed"}

\* "API key" in text
ContainsApiKey(text) == text = "API error: 400 - API key not valid"

\* "authentication" in text.lower()
LowerContainsAuthentication(text) == text = "API error: 401 - Authentication failed"

\* variant: no error text stops the retries
is_authentication_error_never(text) == FALSE

\* variant: every error text stops the retries
is_authentication_error_always(text) == TRUE

\* the test that breaks out of the retry loop
is_authentication_error(text) ==
    ContainsApiKey(text) \/ LowerContainsAuthentication(text)

\* what provider.query can return when the provider is available: the
\* provider classes catch every exception of the request themselves
ProviderOutcomes ==
    {[success |-> TRUE, error |-> ""]}
    \cup {[success |-> FALSE, error |-> e] : e \in ErrorTexts}

\* provider.query of the provider classes: an unavailable provider refuses
\* without sending anything
provider_query(name, p, outcome) ==
    IF ~provider_is_available(p)
    THEN LLMResponse(name, FALSE, <<"provider not available">>)
    ELSE LLMResponse(name, outcome.success,
                     IF outcome.success THEN <<>> ELSE <<outcome.error>>)

\* variant: the provider's error text is not kept
error_or_default_dropping_text(error) == "Unknown provider error"

\* response.error or "Unknown provider error"
error_or_default(error) ==
    IF error = <<>> \/ error = <<"">>
    THEN "Unknown provider error"
    ELSE error[1]

\* the values of max_retries requests are made with: the default 3, or 1
RetryChoices == {1, 3}

\* variant: the loop variable also takes the value n
in_range_inclusive(i, n) == i <= n

\* `for attempt in range(max_retries)`: i is one of the values of the loop
in_range(i, n) == i < n

\* variant: the outer loop walks the fallback order from its end
next_provider_name_reversed(order, taken) == order[Len(order) - taken]

\* `for provider_name in self.fallback_order`: the name the loop takes after
\* `taken` names
next_provider_name(order, taken) == order[taken + 1]

\* the validator does nothing while the router is looked at
ValidatorAtRest ==
    /\ pc = "idle"
    /\ code = CHOOSE c \in Codes : c.kind = "nonstr"
    /\ config = EmptyDict
    /\ docker_client = "None"
    /\ security_score = 100
    /\ issues = <<>>
    /\ warnings = <<>>
    /\ layer_results = EmptyDict
    /\ llm_response = Returned(<<>>)
    /\ execution_result = <<>>
    /\ result = <<>>

\* MultiProviderLLM.__init__: the providers are built from the default
\* configurations, the user's overrides and the environment, and the
\* fallback order is computed from them
RouterInit ==
    /\ ValidatorAtRest
    /\ SandboxAtRest
    /\ HistoryAtRest
    /\ QueryAtRest
    /\ EvolveAtRest
    /\ ScanAtRest
    /\ \E priority \in PriorityChoices,
          enabled \in [SeqToSet(ProviderNames) -> BOOLEAN],
          api_key \in [SeqToSet(ProviderNames) \ {"local"} -> ApiKeys],
          reachable \in BOOLEAN :
         providers = [name \in SeqToSet(ProviderNames) |->
                        Provider(name, priority[name], enabled[name],
                                 IF name = "local" THEN "" ELSE api_key[name],
                                 IF name = "local" THEN reachable ELSE TRUE)]
    /\ fallback_order = available_sorted(providers)
    /\ router_pc = "idle"
    /\ NoRequest
    /\ StatsAtRest

\* provider.config.enabled = value, between two requests
SetEnabled ==
    /\ router_pc = "idle"
    /\ \E name \in DOMAIN providers :
         providers' = [providers EXCEPT ![name].enabled = ~providers[name].enabled]
    /\ UNCHANGED <<outside_router, fallback_order, router_pc, request_vars>>

\* provider.api_key = value: a credential is added or withdrawn
SetApiKey ==
    /\ router_pc = "idle"
    /\ \E name \in DOMAIN providers, key \in ApiKeys :
         /\ providers[name].kind = "remote"
         /\ providers[name].api_key # key
         /\ providers' = [providers EXCEPT ![name].api_key = key]
    /\ UNCHANGED <<outside_router, fallback_order, router_pc, request_vars>>

\* the local endpoint starts or stops answering the health check
LocalEndpointChanges ==
    /\ router_pc = "idle"
    /\ \E name \in DOMAIN providers :
         /\ providers[name].kind = "local"
         /\ providers' = [providers EXCEPT ![name].reachable = ~providers[name].reachable]
    /\ UNCHANGED <<outside_router, fallback_order, router_pc, request_vars>>

\* MultiProviderLLM.refresh_availability
refresh_availability ==
    /\ router_pc = "idle"
    /\ fallback_order' = available_sorted(providers)
    /\ UNCHANGED <<outside_router, providers, router_pc, request_vars>>

\* query_with_fallback up to the outer loop: the check for an empty
\* fallback order and the initial last_error
query_with_fallback ==
    /\ router_pc = "idle"
    /\ \E retries \in RetryChoices : max_retries' = retries
    /\ IF fallback_order = <<>>
       THEN /\ returned_response' = <<LLMResponse("none", FALSE, <<"No LLM providers available">>)>>
            /\ last_error' = last_error
            /\ router_pc' = "returned"
       ELSE /\ returned_response' = <<>>
            /\ last_error' = "Unknown error"
            /\ router_pc' = "for_provider"
    /\ provider_index' = 0
    /\ attempt' = 0
    /\ provider_response' = <<>>
    /\ calls' = <<>>
    /\ sleeps' = 0
    /\ UNCHANGED <<outside_router, fallback_order, providers>>

\* the outer loop takes the next name: an unavailable provider is skipped,
\* an available one enters the retry loop
for_provider ==
    /\ router_pc = "for_provider"
    /\ provider_index < Len(fallback_order)
    /\ LET provider_name == next_provider_name(fallback_order, provider_index)
       IN  router_pc' = IF /\ provider_is_available(providers[provider_name])
                           /\ max_retries > 0
                        THEN "for_attempt"
                        ELSE "for_provider"
    /\ provider_index' = provider_index + 1
    /\ attempt' = 0
    /\ UNCHANGED <<outside_router, fallback_order, providers, max_retries,
                   last_error, returned_response, provider_response, calls,
                   sleeps>>

\* one pass of the retry loop: the call, the return on success, the break
\* on an authentication-class error, the wait before the next attempt.
\* The provider classes raise nothing, so `except Exception` is not taken.
for_attempt ==
    /\ router_pc = "for_attempt"
    /\ \E outcome \in ProviderOutcomes :
         LET provider_name == next_provider_name(fallback_order, provider_index - 1)
             answer == provider_query(provider_name, providers[provider_name], outcome)
             error_text == error_or_default(answer.error)
         IN  /\ provider_response' = <<answer>>
             /\ calls' = Append(calls, [provider |-> provider_name,
                                        success |-> answer.success])
             /\ IF answer.success
                THEN /\ returned_response' = <<answer>>
                     /\ router_pc' = "returned"
                     /\ UNCHANGED <<last_error, attempt, sleeps>>
                ELSE /\ last_error' = error_text
                     /\ returned_response' = returned_response
                     /\ IF is_authentication_error(error_text)
                        THEN /\ router_pc' = "for_provider"
                             /\ UNCHANGED <<attempt, sleeps>>
                        ELSE /\ sleeps' = IF attempt < max_retries - 1
                                          THEN sleeps + 1
                                          ELSE sleeps
                             /\ attempt' = attempt + 1
                             /\ router_pc' = IF in_range(attempt + 1, max_retries)
                                             THEN "for_attempt"
                                             ELSE "for_provider"
    /\ UNCHANGED <<outside_router, fallback_order, providers, max_retries,
                   provider_index>>

\* the return after the outer loop
all_providers_failed ==
    /\ router_pc = "for_provider"
    /\ provider_index = Len(fallback_order)
    /\ returned_response' = <<LLMResponse("failed", FALSE,
                                <<"All providers failed. Last error", last_error>>)>>
    /\ router_pc' = "returned"
    /\ UNCHANGED <<outside_router, fallback_order, providers, max_retries,
                   provider_index, attempt, last_error, provider_response,
                   calls, sleeps>>

\* the caller has the response; the locals of the request are gone
request_returned ==
    /\ router_pc = "returned"
    /\ router_pc' = "idle"
    /\ max_retries' = 0
    /\ provider_index' = 0
    /\ attempt' = 0
    /\ last_error' = ""
    /\ returned_response' = <<>>
    /\ provider_response' = <<>>
    /\ calls' = <<>>
    /\ sleeps' = 0
    /\ UNCHANGED <<outside_router, fallback_order, providers>>

RouterNext ==
    \/ SetEnabled
    \/ SetApiKey
    \/ LocalEndpointChanges
    \/ refresh_availability
    \/ query_with_fallback
    \/ for_provider
    \/ for_attempt
    \/ all_providers_failed
    \/ request_returned

SpecRouter == RouterInit /\ [][RouterNext]_vars

\* the thread that runs a request keeps running: every provider.query
\* returns (requests.post is given config.timeout) and every sleep ends
SpecRouterFair ==
    /\ RouterInit
    /\ [][RouterNext]_vars
    /\ WF_vars(for_provider)
    /\ WF_vars(for_attempt)
    /\ WF_vars(all_providers_failed)

\* ------------------------------------------------------------------------
\* BaseLLMProvider: the runtime statistics of one provider under calls of
\* its query method from several threads
\* ------------------------------------------------------------------------
Threads == {1, 2}

\* response_time of a call, in whole time units
ResponseTimes == {1, 2}

\* a thread outside query, after `made` calls
ThreadIdle(made) ==
    [at |-> "idle", success |-> FALSE, response_time |-> 0, loaded |-> 0,
     made |-> made]

NothingFinished == [calls |-> 0, backend_calls |-> 0, failed_calls |-> 0, latency |-> 0]

\* the provider whose statistics are looked at
StatsProvider == "gemini"

\* a provider object after construction, available or not, and two threads
\* that hold it
StatsInit ==
    /\ ValidatorAtRest
    /\ SandboxAtRest
    /\ HistoryAtRest
    /\ QueryAtRest
    /\ EvolveAtRest
    /\ ScanAtRest
    /\ \E enabled \in BOOLEAN, api_key \in ApiKeys :
         providers = [name \in {StatsProvider} |->
                        Provider(name, default_priority[name], enabled, api_key, TRUE)]
    /\ fallback_order = available_sorted(providers)
    /\ router_pc = "idle"
    /\ NoRequest
    /\ stats = NoStats
    /\ threads = [t \in Threads |-> ThreadIdle(0)]
    /\ finished = NothingFinished

\* the call has returned to thread t
Return(t, backend, success, response_time) ==
    /\ finished' = [calls |-> finished.calls + 1,
                    backend_calls |-> finished.backend_calls + (IF backend THEN 1 ELSE 0),
                    failed_calls |-> finished.failed_calls +
                                       (IF backend /\ ~success THEN 1 ELSE 0),
                    latency |-> finished.latency + response_time]

\* provider.query up to the call of _record_request: an unavailable provider
\* returns its refusal at once; otherwise the request is sent and comes back
\* as a success or a failure after response_time
provider_query_call ==
    /\ \E t \in Threads :
         /\ threads[t].at = "idle"
         /\ threads[t].made < MaxCallsPerThread
         /\ IF ~provider_is_available(providers[StatsProvider])
            THEN /\ threads' = [threads EXCEPT ![t] = ThreadIdle(threads[t].made + 1)]
                 /\ Return(t, FALSE, FALSE, 0)
            ELSE /\ \E success \in BOOLEAN, response_time \in ResponseTimes :
                      threads' = [threads EXCEPT ![t] =
                                    [at |-> "load_request_count", success |-> success,
                                     response_time |-> response_time, loaded |-> 0,
                                     made |-> threads[t].made + 1]]
                 /\ UNCHANGED finished
    /\ UNCHANGED <<stats, outside_stats>>

\* _record_request, `self._request_count += 1`: the read
load_request_count ==
    /\ \E t \in Threads :
         /\ threads[t].at = "load_request_count"
         /\ threads' = [threads EXCEPT ![t].loaded = stats.request_count,
                                       ![t].at = "store_request_count"]
    /\ UNCHANGED <<stats, finished, outside_stats>>

\* `self._request_count += 1`: the write
store_request_count ==
    /\ \E t \in Threads :
         /\ threads[t].at = "store_request_count"
         /\ stats' = [stats EXCEPT !.request_count = threads[t].loaded + 1]
         /\ threads' = [threads EXCEPT ![t].at = "load_total_response_time"]
    /\ UNCHANGED <<finished, outside_stats>>

\* `self._total_response_time += response_time`: the read
load_total_response_time ==
    /\ \E t \in Threads :
         /\ threads[t].at = "load_total_response_time"
         /\ threads' = [threads EXCEPT ![t].loaded = stats.total_response_time,
                                       ![t].at = "store_total_response_time"]
    /\ UNCHANGED <<stats, finished, outside_stats>>

\* `self._total_response_time += response_time`: the write; a successful
\* call returns after it
store_total_response_time ==
    /\ \E t \in Threads :
         /\ threads[t].at = "store_total_response_time"
         /\ stats' = [stats EXCEPT !.total_response_time =
                                       threads[t].loaded + threads[t].response_time]
         /\ IF threads[t].success
            THEN /\ threads' = [threads EXCEPT ![t] = ThreadIdle(threads[t].made)]
                 /\ Return(t, TRUE, TRUE, threads[t].response_time)
            ELSE /\ threads' = [threads EXCEPT ![t].at = "load_error_count"]
                 /\ UNCHANGED finished
    /\ UNCHANGED outside_stats

\* `if not success: self._error_count += 1`: the read
load_error_count ==
    /\ \E t \in Threads :
         /\ threads[t].at = "load_error_count"
         /\ threads' = [threads EXCEPT ![t].loaded = stats.error_count,
                                       ![t].at = "store_error_count"]
    /\ UNCHANGED <<stats, finished, outside_stats>>

\* `self._error_count += 1`: the write; the failed call returns after it
store_error_count ==
    /\ \E t \in Threads :
         /\ threads[t].at = "store_error_count"
         /\ stats' = [stats EXCEPT !.error_count = threads[t].loaded + 1]
         /\ threads' = [threads EXCEPT ![t] = ThreadIdle(threads[t].made)]
         /\ Return(t, TRUE, FALSE, threads[t].response_time)
    /\ UNCHANGED outside_stats

StatsNext ==
    \/ provider_query_call
    \/ load_request_count
    \/ store_request_count
    \/ load_total_response_time
    \/ store_total_response_time
    \/ load_error_count
    \/ store_error_count

SpecStats == StatsInit /\ [][StatsNext]_vars

\* ------------------------------------------------------------------------
\* DockerSandbox: one execute_code_safely call after another on one sandbox
\* ------------------------------------------------------------------------
\* the codes given to the sandbox: what they contain does not matter to it,
\* only whether the code is a string
SandboxCodes == {c \in Codes : c.matched = {} /\ c.nodes = <<>>}

\* variant: the directory outlives its `with` block
TemporaryDirectory_exit_keeping(dirs, d) == dirs

\* tempfile.TemporaryDirectory as a context manager: entering makes a new
\* directory, leaving removes it, on a return and on an exception alike
TemporaryDirectory_enter(dirs, d) == dirs \cup {d}
TemporaryDirectory_exit(dirs, d) == dirs \ {d}

\* container_config has no 'labels' entry: a container of a run carries no
\* label
container_labels == {}

\* the label DockerSandbox.cleanup filters by
cleanup_label == "agi-cli-sandbox=true"

\* containers.run(remove=True, detach=False) creates the container, starts
\* it, waits for it, removes it and then returns the output or raises for a
\* non-zero exit status.  When the start itself is refused (the command is
\* not in the image, the user does not exist) it raises before it removes:
\* the created container stays on the host
StartFailure ==
    [raised |-> TRUE, time |-> 1,
     text |-> "OCI runtime create failed: exec: \"python3\": executable file not found",
     exit_status |-> -1]

ContainerRunOutcomes == RunOutcomes \cup {StartFailure}

ContainerLeft(run) == run = StartFailure

SandboxInit ==
    /\ pc = "idle"
    /\ code \in SandboxCodes
    /\ config = EmptyDict
    /\ docker_client \in {"client", "None"}
    /\ fallback_order = <<>>
    /\ security_score = 100
    /\ issues = <<>>
    /\ warnings = <<>>
    /\ layer_results = EmptyDict
    /\ llm_response = Returned(<<>>)
    /\ execution_result = <<>>
    /\ result = <<>>
    /\ RouterAtRest
    /\ StatsAtRest
    /\ SandboxAtRest
    /\ HistoryAtRest
    /\ QueryAtRest
    /\ EvolveAtRest
    /\ ScanAtRest

\* execute_code_safely up to the container run: the availability check, the
\* temporary directory and the code file.  Writing a code that is no string
\* raises inside the `with` block and the `except Exception` block returns
execute_code_safely_call ==
    /\ sandbox_pc = "idle"
    /\ executions < MaxExecutions
    /\ executions' = executions + 1
    /\ IF ~is_available(docker_client)
       THEN /\ sandbox_result' = <<execute_code_safely(docker_client, code, StartFailure)>>
            /\ sandbox_pc' = "returned"
            /\ UNCHANGED temp_dirs
       ELSE IF code.kind = "nonstr"
       THEN /\ sandbox_result' = <<execute_code_safely(docker_client, code, StartFailure)>>
            /\ sandbox_pc' = "returned"
            /\ temp_dirs' = TemporaryDirectory_exit(
                                TemporaryDirectory_enter(temp_dirs, executions'), executions')
       ELSE /\ temp_dirs' = TemporaryDirectory_enter(temp_dirs, executions')
            /\ sandbox_pc' = "in_container"
            /\ UNCHANGED sandbox_result
    /\ UNCHANGED <<containers, container_runs>>
    /\ UNCHANGED outside_sandbox

\* _execute_in_container and the rest of execute_code_safely: the container
\* run, the result built from its outcome, the end of the `with` block
execute_in_container_call ==
    /\ sandbox_pc = "in_container"
    /\ IF docker_client = "None"
       THEN /\ sandbox_result' = <<ExecutionResult(FALSE,
                    <<"Container execution failed", "Docker client not available">>, -1, 0)>>
            /\ UNCHANGED <<containers, container_runs>>
       ELSE \E run \in ContainerRunOutcomes :
              /\ container_runs' = container_runs + 1
              /\ containers' = IF ContainerLeft(run)
                               THEN containers \cup {[execution |-> executions,
                                                      labels |-> container_labels]}
                               ELSE containers
              /\ sandbox_result' = <<execute_code_safely(docker_client, code, run)>>
    /\ temp_dirs' = TemporaryDirectory_exit(temp_dirs, executions)
    /\ sandbox_pc' = "returned"
    /\ UNCHANGED executions
    /\ UNCHANGED outside_sandbox

\* the caller has the ExecutionResult
execute_code_safely_returned ==
    /\ sandbox_pc = "returned"
    /\ sandbox_pc' = "idle"
    /\ sandbox_result' = <<>>
    /\ UNCHANGED <<executions, temp_dirs, containers, container_runs>>
    /\ UNCHANGED outside_sandbox

\* DockerSandbox.cleanup, called between two executions: the containers with
\* the sandbox label are removed
cleanup ==
    /\ sandbox_pc = "idle"
    /\ containers' = IF docker_client # "None"
                     THEN {c \in containers : cleanup_label \notin c.labels}
                     ELSE containers
    /\ UNCHANGED <<sandbox_pc, executions, temp_dirs, container_runs, sandbox_result>>
    /\ UNCHANGED outside_sandbox

SandboxNext ==
    \/ execute_code_safely_call
    \/ execute_in_container_call
    \/ execute_code_safely_returned
    \/ cleanup

SpecSandbox == SandboxInit /\ [][SandboxNext]_vars

\* ------------------------------------------------------------------------
\* The evolve command: generate, validate, store, execute
\* ------------------------------------------------------------------------
\* the calls and imports of a generated text: one that _validate_ast refuses,
\* one that only _validate_security refuses, a call and an import that both
\* let through
GeneratedNodeChoices ==
    {Name("eval"), Attribute("os", "system"), Name("print"), Import(<<"os">>)}

\* what the LLM can generate: a text that parses, with at most MaxNodes
\* calls and imports, or a text with a syntax error
EvolveCodes ==
    {c \in Codes : /\ c.matched = {}
                   /\ c.metrics = [NoMetrics EXCEPT !.lines = 1]
                   /\ c.kind = "ok"
                   /\ \A i \in 1..Len(c.nodes) : c.nodes[i] \in GeneratedNodeChoices}
    \cup {c \in Codes : c.matched = {} /\ c.kind = "parse_error" /\ c.err = "invalid syntax"}

\* config security.restricted_modules
restricted_modules == {"eval", "exec", "compile", "__import__"}

\* CodeGenerator._validate_ast: a syntax error and any other exception give
\* False; so does a call of eval, exec or compile by name and the import of
\* a restricted module
validate_ast(c) ==
    /\ c.kind = "ok"
    /\ \A i \in 1..Len(c.nodes) :
         LET node == c.nodes[i]
         IN  /\ ~(node.type = "Call" /\ node.func = "Name"
                    /\ node.names[1] \in {"eval", "exec", "compile"})
             /\ ~(node.type \in {"Import", "ImportFrom"}
                    /\ \E k \in 1..Len(node.names) : node.names[k] \in restricted_modules)

\* CodeGenerator._validate_security: the text holds none of the restricted
\* patterns; of these the texts of the model hold 'os.system' and 'eval('
validate_security(c) ==
    \A i \in 1..Len(c.nodes) :
        LET node == c.nodes[i]
        IN  /\ ~(node.type = "Call" /\ node.func = "Attribute"
                   /\ node.names = <<"os", "system">>)
            /\ ~(node.type = "Call" /\ node.func = "Name" /\ node.names[1] = "eval")

\* what llm_integration.validate_code_with_llm can do
LLMVerdicts == {"True", "False", "raises"}

\* variant: an exception of the LLM check counts as a failed validation
generator_validate_with_llm_blocking(verdict) == verdict = "True"

\* CodeGenerator._validate_with_llm: an exception of the LLM does not block
generator_validate_with_llm(verdict) == verdict \in {"True", "raises"}

\* CodeGenerator.validate_code
validate_code(c, enabled, verdict) ==
    IF ~enabled THEN TRUE
    ELSE IF ~validate_ast(c) THEN FALSE
    ELSE IF ~validate_security(c) THEN FALSE
    ELSE generator_validate_with_llm(verdict)

\* validate_code comes to its third step, the LLM check
reaches_llm_check(c, enabled) == enabled /\ validate_ast(c) /\ validate_security(c)

\* variant: evolve goes on whatever validate_code returned
validation_passed_ignored(value) == TRUE

\* `if not cli_ctx.code_generator.validate_code(generated_code): return`
validation_passed(value) == value

EvolveInit ==
    /\ pc = "idle"
    /\ code = CHOOSE c \in Codes : c.kind = "nonstr"
    /\ config = EmptyDict
    /\ docker_client = "None"
    /\ fallback_order = <<>>
    /\ security_score = 100
    /\ issues = <<>>
    /\ warnings = <<>>
    /\ layer_results = EmptyDict
    /\ llm_response = Returned(<<>>)
    /\ execution_result = <<>>
    /\ result = <<>>
    /\ RouterAtRest
    /\ StatsAtRest
    /\ SandboxAtRest
    /\ HistoryAtRest
    /\ QueryAtRest
    /\ ScanAtRest
    /\ evolve_pc = "idle"
    /\ invocations = 0
    /\ validation_enabled \in BOOLEAN
    /\ execute = FALSE
    /\ save = FALSE
    /\ generated_code = <<>>
    /\ validate_calls = <<>>
    /\ history = <<>>
    /\ command_registry = <<>>
    /\ executed = <<>>

\* where evolve goes after the history entry
AfterHistory(s, e) == IF s THEN "save" ELSE IF e THEN "execute" ELSE "done"

\* evolve up to the validation: generate_command gives None or a code; with
\* neither option the code is only shown
evolve ==
    /\ evolve_pc = "idle"
    /\ invocations < MaxInvocations
    /\ invocations' = invocations + 1
    /\ validate_calls' = <<>>
    /\ \E e \in BOOLEAN, sv \in BOOLEAN, generated \in {<<>>} \cup {<<c>> : c \in EvolveCodes} :
         /\ execute' = e
         /\ save' = sv
         /\ generated_code' = generated
         /\ evolve_pc' = IF generated = <<>> THEN "done"
                         ELSE IF e \/ sv THEN "validate" ELSE "done"
    /\ UNCHANGED <<validation_enabled, history, command_registry, executed>>
    /\ UNCHANGED outside_evolve

\* the validate_code call and the return on a failed validation
evolve_validate ==
    /\ evolve_pc = "validate"
    /\ \E verdict \in LLMVerdicts :
         LET value == validate_code(generated_code[1], validation_enabled, verdict)
         IN  /\ validate_calls' = Append(validate_calls,
                    [code |-> generated_code[1], value |-> value,
                     llm |-> IF reaches_llm_check(generated_code[1], validation_enabled)
                             THEN verdict ELSE "not called"])
             /\ evolve_pc' = IF validation_passed(value) THEN "history" ELSE "done"
    /\ UNCHANGED <<invocations, validation_enabled, execute, save, generated_code,
                   history, command_registry, executed>>
    /\ UNCHANGED outside_evolve

\* history_manager.save_command: it stores the code and gives its id, or it
\* raises and the `except Exception` block of evolve ends the invocation
evolve_save_history ==
    /\ evolve_pc = "history"
    /\ \/ /\ history' = Append(history, generated_code[1])
          /\ evolve_pc' = AfterHistory(save, execute)
       \/ /\ UNCHANGED history
          /\ evolve_pc' = "done"
    /\ UNCHANGED <<invocations, validation_enabled, execute, save, generated_code,
                   validate_calls, command_registry, executed>>
    /\ UNCHANGED outside_evolve

\* command_manager.save_command: it stores the code, or it fails and gives
\* False, which evolve does not read
evolve_save_command ==
    /\ evolve_pc = "save"
    /\ \/ command_registry' = Append(command_registry, generated_code[1])
       \/ UNCHANGED command_registry
    /\ evolve_pc' = IF execute THEN "execute" ELSE "done"
    /\ UNCHANGED <<invocations, validation_enabled, execute, save, generated_code,
                   validate_calls, history, executed>>
    /\ UNCHANGED outside_evolve

\* code_generator.execute_code
evolve_execute_code ==
    /\ evolve_pc = "execute"
    /\ executed' = Append(executed, generated_code[1])
    /\ evolve_pc' = "done"
    /\ UNCHANGED <<invocations, validation_enabled, execute, save, generated_code,
                   validate_calls, history, command_registry>>
    /\ UNCHANGED outside_evolve

\* the command ends
evolve_returned ==
    /\ evolve_pc = "done"
    /\ evolve_pc' = "idle"
    /\ UNCHANGED <<invocations, validation_enabled, execute, save, generated_code,
                   validate_calls, history, command_registry, executed>>
    /\ UNCHANGED outside_evolve

EvolveNext ==
    \/ evolve
    \/ evolve_validate
    \/ evolve_save_history
    \/ evolve_save_command
    \/ evolve_execute_code
    \/ evolve_returned

SpecEvolve == EvolveInit /\ [][EvolveNext]_vars

\* ------------------------------------------------------------------------
\* Two validation requests at the same time on one EnhancedValidator: its one
\* ASTSecurityScanner in layer 2
\* ------------------------------------------------------------------------
Requests == {1, 2}

\* the codes of the concurrent requests: texts that parse
ScanCodes ==
    {c \in Codes : /\ c.kind = "ok"
                   /\ c.matched = {}
                   /\ c.metrics = [NoMetrics EXCEPT !.lines = 1]}

\* the locals of a request that has entered layer 2
RequestStart(c) ==
    [pc |-> "scan_code", code |-> c, node |-> 1,
     ast_valid |-> "None", ast_issues |-> 0,
     issues |-> <<>>, security_score |-> 100, layer_results |-> EmptyDict]

ScanInit ==
    /\ ValidatorAtRest
    /\ fallback_order = <<>>
    /\ RouterAtRest
    /\ StatsAtRest
    /\ SandboxAtRest
    /\ HistoryAtRest
    /\ QueryAtRest
    /\ EvolveAtRest
    /\ scanned_code = <<>>
    /\ scan_outcome = <<>>
    /\ lists = << <<>> >>
    /\ self_security_violations = 1
    /\ requests \in [Requests -> {RequestStart(c) : c \in ScanCodes}]

\* `self.security_violations = []` and `tree = ast.parse(code)`
scan_code_reset(r) ==
    /\ requests[r].pc = "scan_code"
    /\ lists' = Append(lists, <<>>)
    /\ self_security_violations' = Len(lists) + 1
    /\ requests' = [requests EXCEPT ![r].pc = "visit"]
    /\ UNCHANGED outside_scan

\* `self.visit(tree)`, one node at a time: a visit method appends to the
\* list the attribute refers to when it runs
scan_code_visit(r) ==
    /\ requests[r].pc = "visit"
    /\ LET req == requests[r]
           allowed_imports == ConfigGet(config, "plugins.allowed_imports", default_allowed_imports)
       IN  IF req.node <= Len(req.code.nodes)
           THEN /\ lists' = [lists EXCEPT ![self_security_violations] =
                                @ \o visit(<<req.code.nodes[req.node]>>, allowed_imports)]
                /\ requests' = [requests EXCEPT ![r].node = @ + 1]
           ELSE /\ requests' = [requests EXCEPT ![r].pc = "return"]
                /\ UNCHANGED lists
    /\ UNCHANGED self_security_violations
    /\ UNCHANGED outside_scan

\* `return len(self.security_violations) == 0, self.security_violations`:
\* the caller is given the list object itself
scan_code_return(r) ==
    /\ requests[r].pc = "return"
    /\ requests' = [requests EXCEPT
                       ![r].ast_valid = PyBool(Len(lists[self_security_violations]) = 0),
                       ![r].ast_issues = self_security_violations,
                       ![r].pc = "layer2"]
    /\ UNCHANGED <<self_security_violations, lists>>
    /\ UNCHANGED outside_scan

\* layer 2 after the scan: the layer result, and for a failed scan the issues
\* of the returned list and the penalty
layer2_record(r) ==
    /\ requests[r].pc = "layer2"
    /\ LET req == requests[r]
       IN  requests' = [requests EXCEPT
                          ![r].layer_results = DictSet(@, "ast_analysis", req.ast_valid),
                          ![r].issues = IF Not(req.ast_valid)
                                        THEN @ \o lists[req.ast_issues] ELSE @,
                          ![r].security_score = IF Not(req.ast_valid)
                                                THEN @ - ast_penalty ELSE @,
                          ![r].pc = "done"]
    /\ UNCHANGED <<self_security_violations, lists>>
    /\ UNCHANGED outside_scan

ScanNext ==
    \E r \in Requests :
        \/ scan_code_reset(r)
        \/ scan_code_visit(r)
        \/ scan_code_return(r)
        \/ layer2_record(r)

SpecScan == ScanInit /\ [][ScanNext]_vars

\* ------------------------------------------------------------------------
\* ASTSecurityScanner.scan_code called alone, on codes with several calls and
\* imports
\* ------------------------------------------------------------------------
\* the calls and imports of these codes, in the order the visitor meets
\* them, whatever their nesting: also an import statement of two modules
ScanNodeChoices ==
    NodeChoices \cup {Import(<<"os", "numpy">>), Import(<<"json", "sys">>)}

\* the codes: a text the visitor walks through, or one nested deeper than
\* the visitor's recursion can follow
ScannedCodes ==
    {[kind |-> k, exc |-> "", err |-> "", matched |-> {}, nodes |-> n,
      metrics |-> NoMetrics] :
        k \in {"ok", "deep"}, n \in SeqsUpTo(ScanNodeChoices, MaxScanned)}

ScanAloneInit ==
    /\ ValidatorAtRest
    /\ fallback_order = <<>>
    /\ RouterAtRest
    /\ StatsAtRest
    /\ SandboxAtRest
    /\ HistoryAtRest
    /\ QueryAtRest
    /\ EvolveAtRest
    /\ lists = << <<>> >>
    /\ self_security_violations = 1
    /\ requests = <<>>
    /\ scanned_code \in {<<c>> : c \in ScannedCodes}
    /\ scan_outcome = <<>>

\* the call scan_code(code)
scan_code_call ==
    /\ scan_outcome = <<>>
    /\ scan_outcome' = <<scan_code(scanned_code[1],
                            ConfigGet(config, "plugins.allowed_imports", default_allowed_imports))>>
    /\ UNCHANGED scanned_code
    /\ UNCHANGED outside_scan_alone

ScanAloneNext == scan_code_call

SpecScanAlone == ScanAloneInit /\ [][ScanAloneNext]_vars

\* ------------------------------------------------------------------------
\* LLMIntegration.query: the direct API providers in configured order
\* ------------------------------------------------------------------------
\* the names self.api_providers has a function for
api_providers == {"gemini", "openai", "anthropic", "local"}

\* the names config llm.providers can hold: also one without a function
ConfiguredNames == api_providers \cup {"mistral"}

\* what can happen to a provider call: a reply with a text, a reply whose
\* text is empty after strip(), an HTTP error status, a timeout, a connection
\* error, no API key in the environment, a reply of status 200 without the
\* expected fields
CallEvents ==
    {"text", "empty_text", "http_error", "timeout", "connection_error",
     "no_api_key", "malformed"}

\* the local endpoint needs no API key
EventsOf(name) == IF name = "local" THEN CallEvents \ {"no_api_key"} ELSE CallEvents

\* _query_gemini, _query_openai, _query_anthropic, _query_local.  A reply
\* without the expected fields raises in the three remote functions; in
\* _query_local, result.get('response', '') turns it into the empty text
provider_function(name, event) ==
    CASE event = "text" -> Returned(<<"SAFE">>)
      [] event = "empty_text" -> Returned(<<"">>)
      [] event = "http_error" -> Raised("Exception", "API error: 400 - Bad Request")
      [] event = "timeout" -> Raised("Timeout", "Request timed out")
      [] event = "connection_error" -> Raised("ConnectionError", "Connection failed")
      [] event = "no_api_key" -> Raised("ValueError", "API key not found")
      [] event = "malformed" ->
           IF name = "local" THEN Returned(<<"">>)
           ELSE IF name = "gemini" THEN Raised("Exception", "No valid response from Gemini API")
           ELSE Raised("KeyError", "choices")

\* variant: after a provider raised, the loop goes on with the next name
AfterProviderRaised_next_provider == "for_provider"

\* the handler of a provider's exception: `return None`
AfterProviderRaised == "returned"

QueryInit ==
    /\ ValidatorAtRest
    /\ fallback_order = <<>>
    /\ RouterAtRest
    /\ StatsAtRest
    /\ SandboxAtRest
    /\ HistoryAtRest
    /\ EvolveAtRest
    /\ ScanAtRest
    /\ use_direct_api \in BOOLEAN
    /\ llm_providers \in SeqsUpTo(ConfiguredNames, MaxConfigured)
    /\ query_pc = "idle"
    /\ query_index = 0
    /\ tried = <<>>
    /\ query_returned = <<>>

\* the call: without the direct API nothing is tried and None is returned
llm_query ==
    /\ query_pc = "idle"
    /\ query_index' = 0
    /\ tried' = <<>>
    /\ IF use_direct_api
       THEN query_pc' = "for_provider" /\ query_returned' = <<>>
       ELSE query_pc' = "returned" /\ query_returned' = << <<>> >>
    /\ UNCHANGED <<use_direct_api, llm_providers>>
    /\ UNCHANGED outside_query

\* one pass of `for provider_name in self.llm_config.get('providers')`, or
\* the end of the loop
llm_for_provider ==
    /\ query_pc = "for_provider"
    /\ IF query_index >= Len(llm_providers)
       THEN /\ query_pc' = "returned"
            /\ query_returned' = << <<>> >>
            /\ UNCHANGED <<query_index, tried>>
       ELSE LET provider_name == llm_providers[query_index + 1]
            IN  /\ query_index' = query_index + 1
                /\ IF provider_name \notin api_providers
                   THEN UNCHANGED <<query_pc, tried, query_returned>>
                   ELSE \E event \in EventsOf(provider_name) :
                          LET r == provider_function(provider_name, event)
                          IN  /\ tried' = Append(tried, [provider |-> provider_name,
                                                        event |-> event])
                              /\ IF r.raised
                                 THEN /\ query_pc' = AfterProviderRaised
                                      /\ query_returned' =
                                            IF AfterProviderRaised = "returned"
                                            THEN << <<>> >> ELSE <<>>
                                 ELSE IF Truthy(r.value)
                                 THEN /\ query_pc' = "returned"
                                      /\ query_returned' = <<r.value>>
                                 ELSE UNCHANGED <<query_pc, query_returned>>
    /\ UNCHANGED <<use_direct_api, llm_providers>>
    /\ UNCHANGED outside_query

\* the caller has the response
llm_query_returned ==
    /\ query_pc = "returned"
    /\ query_pc' = "idle"
    /\ query_index' = 0
    /\ tried' = <<>>
    /\ query_returned' = <<>>
    /\ UNCHANGED <<use_direct_api, llm_providers>>
    /\ UNCHANGED outside_query

QueryNext ==
    \/ llm_query
    \/ llm_for_provider
    \/ llm_query_returned

SpecQuery == QueryInit /\ [][QueryNext]_vars

\* ------------------------------------------------------------------------
\* HistoryManager (history.py)
\* ------------------------------------------------------------------------
\* An entry of history_data is described by
\*   id         the first 8 characters of a uuid4, here the number of the
\*              operation that made it
\*   status     'saved', 'rolled_back', 'rollback', 'backup' or 'restore'
\*   timestamp  datetime.now().isoformat(), here the same number
\*   code_file  TRUE if the entry has a 'code_file' key (save_command sets
\*              it, the other operations do not)
MaxHistoryOps == 4

default_max_entries == 1000

\* the configurations of the model: history.max_entries set, or absent
HistoryConfigs == {EmptyDict} \cup {("max_entries" :> n) : n \in {1, 2}}

\* HistoryManager.get_command: the first entry with the id, or None
get_command(data, command_id) ==
    LET found == {i \in 1..Len(data) : data[i].id = command_id}
    IN  IF found = {} THEN <<>>
        ELSE << CHOOSE i \in found : \A j \in found : i <= j >>

\* sorted(history_data, key=timestamp, reverse=True): the latest first, entries
\* of one timestamp in list order
RECURSIVE sorted_by_timestamp_reverse(_)
sorted_by_timestamp_reverse(data) ==
    IF data = <<>> THEN <<>>
    ELSE LET first == CHOOSE i \in 1..Len(data) :
                          \A j \in 1..Len(data) :
                              \/ data[j].timestamp < data[i].timestamp
                              \/ data[j].timestamp = data[i].timestamp /\ i <= j
             rest == [k \in 1..(Len(data) - 1) |-> IF k < first THEN data[k] ELSE data[k + 1]]
         IN  <<data[first]>> \o sorted_by_timestamp_reverse(rest)

\* Path(entry.get('code_file', '')).exists(): the path of an entry without the
\* key is Path(''), the current directory, which exists
code_file_exists(e, files) == IF e.code_file THEN e.id \in files ELSE TRUE

\* code_file.unlink(): the file of the entry is removed; the current directory
\* is no file, and unlink raises IsADirectoryError
unlink(e, files) ==
    IF e.code_file THEN Returned(files \ {e.id})
    ELSE Raised("IsADirectoryError", "[Errno 21] Is a directory: '.'")

\* the loop of _cleanup_history over entries_to_remove: the files left, or
\* the exception of the first unlink that raised
RECURSIVE remove_old_code_files(_, _)
remove_old_code_files(entries_to_remove, files) ==
    IF entries_to_remove = <<>> THEN Returned(files)
    ELSE LET e == Head(entries_to_remove)
         IN  IF code_file_exists(e, files)
             THEN LET r == unlink(e, files)
                  IN  IF r.raised THEN [r EXCEPT !.value = files]
                      ELSE remove_old_code_files(Tail(entries_to_remove), r.value)
             ELSE remove_old_code_files(Tail(entries_to_remove), files)

\* variant: the cleanup keeps one entry more than configured
kept_by_cleanup_one_more(sorted_history, max_entries) ==
    SubSeq(sorted_history, 1, max_entries + 1)

\* sorted_history[:max_entries]
kept_by_cleanup(sorted_history, max_entries) ==
    SubSeq(sorted_history, 1, max_entries)

\* HistoryManager._cleanup_history: the history and the files it leaves; an
\* exception inside is logged and the history stays as it was
cleanup_history(data, files) ==
    LET max_entries == DictGet(history_config, "max_entries", default_max_entries)
    IN  IF Len(data) > max_entries
        THEN LET sorted_history == sorted_by_timestamp_reverse(data)
                 entries_to_remove == SubSeq(sorted_history, max_entries + 1, Len(sorted_history))
                 r == remove_old_code_files(entries_to_remove, files)
             IN  IF r.raised
                 THEN [history_data |-> data, code_files |-> r.value]
                 ELSE [history_data |-> kept_by_cleanup(sorted_history, max_entries),
                       code_files |-> r.value]
        ELSE [history_data |-> data, code_files |-> files]

HistoryInit ==
    /\ ValidatorAtRest
    /\ fallback_order = <<>>
    /\ RouterAtRest
    /\ StatsAtRest
    /\ SandboxAtRest
    /\ EvolveAtRest
    /\ ScanAtRest
    /\ QueryAtRest
    /\ history_config \in HistoryConfigs
    /\ history_data = <<>>
    /\ code_files = {}
    /\ history_clock = 0
    /\ history_returned = <<>>

\* HistoryManager.save_command; written is whether the code file could be
\* written
save_command ==
    /\ history_clock < MaxHistoryOps
    /\ \E written \in BOOLEAN :
         LET command_id == history_clock + 1
             entry == [id |-> command_id, status |-> "saved",
                       timestamp |-> command_id, code_file |-> TRUE]
             cleaned == cleanup_history(Append(history_data, entry),
                                        code_files \cup {command_id})
         IN  IF written
             THEN /\ history_data' = cleaned.history_data
                  /\ code_files' = cleaned.code_files
                  /\ history_returned' = <<command_id>>
             ELSE /\ UNCHANGED <<history_data, code_files>>
                  /\ history_returned' = <<"">>
    /\ history_clock' = history_clock + 1
    /\ UNCHANGED history_config
    /\ UNCHANGED outside_history_manager

\* HistoryManager.rollback_command
rollback_command ==
    /\ history_clock < MaxHistoryOps
    /\ \E command_id \in 1..MaxHistoryOps :
         LET at == get_command(history_data, command_id)
         IN  IF at = <<>>
             THEN /\ history_returned' = <<FALSE>>
                  /\ UNCHANGED <<history_data, history_clock>>
             ELSE LET rollback_entry == [id |-> history_clock + 1, status |-> "rollback",
                                         timestamp |-> history_clock + 1, code_file |-> FALSE]
                  IN  /\ history_data' = [Append(history_data, rollback_entry)
                                             EXCEPT ![at[1]].status = "rolled_back"]
                      /\ history_clock' = history_clock + 1
                      /\ history_returned' = <<TRUE>>
    /\ UNCHANGED <<history_config, code_files>>
    /\ UNCHANGED outside_history_manager

\* HistoryManager.delete_command
delete_command ==
    /\ \E command_id \in 1..MaxHistoryOps :
         LET at == get_command(history_data, command_id)
         IN  IF at = <<>>
             THEN /\ history_returned' = <<FALSE>>
                  /\ UNCHANGED <<history_data, code_files>>
             ELSE LET entry == history_data[at[1]]
                      r == IF code_file_exists(entry, code_files)
                           THEN unlink(entry, code_files)
                           ELSE Returned(code_files)
                  IN  IF r.raised
                      THEN /\ history_returned' = <<FALSE>>
                           /\ UNCHANGED <<history_data, code_files>>
                      ELSE /\ code_files' = r.value
                           /\ history_data' = SelectSeq(history_data,
                                                  LAMBDA e : e.id # command_id)
                           /\ history_returned' = <<TRUE>>
    /\ UNCHANGED <<history_config, history_clock>>
    /\ UNCHANGED outside_history_manager

\* HistoryManager.backup_system_state; copied is whether the backup directory
\* could be written
backup_system_state ==
    /\ history_clock < MaxHistoryOps
    /\ \E copied \in BOOLEAN :
         LET backup_id == history_clock + 1
             history_entry == [id |-> backup_id, status |-> "backup",
                               timestamp |-> backup_id, code_file |-> FALSE]
         IN  IF copied
             THEN /\ history_data' = Append(history_data, history_entry)
                  /\ history_returned' = <<backup_id>>
             ELSE /\ UNCHANGED history_data
                  /\ history_returned' = <<"">>
    /\ history_clock' = history_clock + 1
    /\ UNCHANGED <<history_config, code_files>>
    /\ UNCHANGED outside_history_manager

\* HistoryManager.restore_system_backup; restored is whether the backup
\* directory exists and could be copied back
restore_system_backup ==
    /\ history_clock < MaxHistoryOps
    /\ \E backup_id \in 1..MaxHistoryOps, restored \in BOOLEAN :
         LET at == get_command(history_data, backup_id)
         IN  IF at = <<>> \/ history_data[at[1]].status # "backup" \/ ~restored
             THEN /\ history_returned' = <<FALSE>>
                  /\ UNCHANGED <<history_data, history_clock>>
             ELSE LET restore_entry == [id |-> history_clock + 1, status |-> "restore",
                                        timestamp |-> history_clock + 1, code_file |-> FALSE]
                  IN  /\ history_data' = Append(history_data, restore_entry)
                      /\ history_clock' = history_clock + 1
                      /\ history_returned' = <<TRUE>>
    /\ UNCHANGED <<history_config, code_files>>
    /\ UNCHANGED outside_history_manager

HistoryNext ==
    \/ save_command
    \/ rollback_command
    \/ delete_command
    \/ backup_system_state
    \/ restore_system_backup

SpecHistory == HistoryInit /\ [][HistoryNext]_vars

\* ------------------------------------------------------------------------
\* Properties
\* ------------------------------------------------------------------------
HasIssue(prefix) == \E i \in 1..Len(issues) : issues[i][1] = prefix
HasWarning(prefix) == \E i \in 1..Len(warnings) : warnings[i][1] = prefix

CountIssues(list, prefixes) == Cardinality({i \in 1..Len(list) : list[i][1] \in prefixes})

\* the configured validation.min_security_score, 70 when it is not set
ConfiguredMinimum ==
    IF "validation.min_security_score" \in DOMAIN config
    THEN config["validation.min_security_score"]
    ELSE 70

NoCriticalLayerFailed(results) ==
    \A l \in {"input_sanitization", "ast_analysis", "llm_validation"} : results[l] = "True"

AfterLayer1 == {"L2", "L3", "L4", "L5", "final", "done"}
AfterLayer2 == {"L3", "L4", "L5", "final", "done"}
AfterLayer3 == {"L4", "L5", "final", "done"}
AfterLayer4 == {"L5", "final", "done"}
AfterLayer5 == {"final", "done"}

ContainsEvalCall(c) == \E i \in 1..Len(c.nodes) : c.nodes[i] = Name("eval")

\* C1: the returned is_valid is true exactly when none of the three critical
\* layers (input_sanitization, ast_analysis, llm_validation) failed and the
\* final security_score is at least the configured minimum (default 70); the
\* complexity and sandbox layers count only through the score.
C1_VerdictRule ==
    pc = "done" =>
        (result[1].is_valid <=>
            /\ NoCriticalLayerFailed(result[1].layer_results)
            /\ result[1].security_score >= ConfiguredMinimum)

\* C1 witness: a pass returned valid although the complexity layer failed
C1_Witness ==
    /\ pc = "done"
    /\ result[1].is_valid
    /\ result[1].layer_results["complexity_analysis"] = "False"

\* C2: when the code contains a call of eval, the static-scan layer result is
\* false and is_valid is false, whatever the other layers return and whatever
\* minimum score is configured.
C2_DangerousCallRejected ==
    (pc = "done" /\ ContainsEvalCall(code)) =>
        /\ result[1].layer_results["ast_analysis"] = "False"
        /\ ~result[1].is_valid

\* C2 witness: a call of eval, every other layer passes, the minimum is 0
C2_Witness ==
    /\ pc = "done"
    /\ ContainsEvalCall(code)
    /\ ConfiguredMinimum = 0
    /\ \A l \in {"input_sanitization", "llm_validation", "complexity_analysis",
                 "sandbox_execution"} : result[1].layer_results[l] = "True"
    /\ ~result[1].is_valid

\* C3: the five stages run in the fixed order sanitization, static scan,
\* semantic validation, complexity analysis, sandbox execution, each leaving
\* its entry in layer_results whether it passed, failed or threw, and the
\* returned layer_results holds an entry for each of the five layers.
C3_AllStagesRunInOrder ==
    [][ /\ (pc = "L1" => pc' = "L2" /\ "input_sanitization" \in DOMAIN layer_results')
        /\ (pc = "L2" => pc' = "L3" /\ "ast_analysis" \in DOMAIN layer_results')
        /\ (pc = "L3" => pc' = "L4" /\ "llm_validation" \in DOMAIN layer_results')
        /\ (pc = "L4" => pc' = "L5" /\ "complexity_analysis" \in DOMAIN layer_results')
        /\ (pc = "L5" => pc' = "final" /\ "sandbox_execution" \in DOMAIN layer_results')
        /\ (pc = "final" =>
              /\ pc' = "done"
              /\ DOMAIN result'[1].layer_results =
                     {"input_sanitization", "ast_analysis", "llm_validation",
                      "complexity_analysis", "sandbox_execution"}) ]_vars

\* C3 witness: the first two stages threw and the pass still returned with
\* the sandbox layer recorded
C3_Witness ==
    /\ pc = "done"
    /\ code.kind = "nonstr"
    /\ HasIssue("Input sanitization failed")
    /\ HasIssue("AST analysis failed")
    /\ "sandbox_execution" \in DOMAIN result[1].layer_results

C5_ScoreOnlyDecreases ==
    [][ /\ (pc' = "L1" => security_score' = 100)
        /\ (pc \in {"L1", "L2", "L3", "L4", "L5", "final"} =>
                security_score' <= security_score) ]_vars

\* C5 witness: every stage deducted, and the score ended below zero
C5_Witness ==
    /\ pc = "done"
    /\ \A l \in {"input_sanitization", "ast_analysis", "llm_validation",
                 "complexity_analysis", "sandbox_execution"} : layer_results[l] = "False"
    /\ security_score < 0

Deduct(applies, penalty) == IF applies THEN penalty ELSE 0

\* no stage function of the pass throws on this code
EveryStageReturnsNormally ==
    /\ ~validate_llm_response(code).raised
    /\ ~scan_code(code, default_allowed_imports).raised

\* the number of ceilings (lines, functions, composite score) the code exceeds
CeilingsExceeded(c) ==
    IF c.kind \in {"ok", "deep"}
    THEN Deduct(c.metrics.lines > 100, 1)
         + Deduct(c.metrics.functions > 5, 1)
         + Deduct(c.metrics.loops + c.metrics.conditionals + c.metrics.functions > 10, 1)
    ELSE 0

ComplexityIssuePrefixes ==
    {"Code too long", "Too many functions", "Code too complex",
     "Syntax error in complexity analysis", "Complexity analysis failed"}

\* what the stages other than the complexity analysis deduct
OtherStagesDeduction ==
    Deduct(layer_results["input_sanitization"] = "False", 30)
    + Deduct(layer_results["ast_analysis"] = "False", 25)
    + Deduct(layer_results["llm_validation"] = "False", 20)
    + Deduct(docker_client # "None" /\ layer_results["sandbox_execution"] = "False", 15)

\* C6 as stated: when every stage returns normally the final score is 100
\* minus 30, 25, 20 and 15 for the failed sanitization, static scan, semantic
\* and sandbox stages and minus 10 for each exceeded complexity ceiling, and
\* nothing else is deducted.
C6_ScoreFormulaCeilingsOnly ==
    (pc = "done" /\ EveryStageReturnsNormally) =>
        result[1].security_score =
            100 - OtherStagesDeduction - 10 * CeilingsExceeded(code)

\* C6 amended: the complexity stage deducts 10 for each message of a failed
\* analysis that the pass keeps as an issue: one per exceeded ceiling, or the
\* single parse-error message of a code that does not parse.
C6_ScoreFormula ==
    (pc = "done" /\ EveryStageReturnsNormally) =>
        result[1].security_score =
            100 - OtherStagesDeduction
                - 10 * CountIssues(result[1].issues, ComplexityIssuePrefixes)

\* C6 witness: a code with a syntax error, all else passing, ends at 65
C6_Witness ==
    /\ pc = "done"
    /\ code.kind = "parse_error"
    /\ code.exc = "SyntaxError"
    /\ layer_results["input_sanitization"] = "True"
    /\ layer_results["llm_validation"] = "True"
    /\ layer_results["sandbox_execution"] = "True"
    /\ result[1].security_score = 65

\* the semantic-validation call itself erred: the query raised, or gave no
\* response
QueryErred(response) == response.raised \/ ~Truthy(response.value)

\* C7 as stated: if the semantic-validation call itself errs instead of
\* returning a verdict, layer 3 reduces the score by 15, not by 20.
C7_CallErrorCosts15 ==
    [][ (pc = "L3" /\ QueryErred(llm_response')) =>
            security_score' = security_score - 15 ]_vars

LastIssueIs(old, new, prefix) ==
    /\ Len(new) = Len(old) + 1
    /\ new[Len(new)][1] = prefix

SandboxRunFailed(er) == er # <<>> /\ ~er[1].success

\* C8 as stated: a stage that fails through an internal exception is
\* recorded false with an issue and costs the stage's ordinary penalty:
\* 30 for sanitization, 25 for the static scan, 15 for the sandbox.
C8_ExceptionCostsOrdinaryPenalty ==
    [][ /\ (pc = "L1" /\ validate_llm_response(code).raised) =>
               /\ layer_results'["input_sanitization"] = "False"
               /\ Len(issues') > Len(issues)
               /\ security_score' = security_score - 30
        /\ (pc = "L2" /\ code.kind \in {"deep", "parse_error", "nonstr"}) =>
               /\ layer_results'["ast_analysis"] = "False"
               /\ Len(issues') > Len(issues)
               /\ security_score' = security_score - 25
        /\ (pc = "L5" /\ SandboxRunFailed(execution_result')) =>
               /\ layer_results'["sandbox_execution"] = "False"
               /\ Len(issues') > Len(issues)
               /\ security_score' = security_score - 15 ]_vars

\* C8 amended: an exception that reaches the handler of the sanitization or
\* of the static-scan stage is recorded false with an issue and costs 20; a
\* SyntaxError is caught inside the scanner and costs the ordinary 25; an
\* exception inside the sandbox executor comes back as a failed execution
\* and costs the ordinary 15.
C8_ExceptionPenalties ==
    [][ /\ (pc = "L1" /\ validate_llm_response(code).raised) =>
               /\ layer_results'["input_sanitization"] = "False"
               /\ LastIssueIs(issues, issues', "Input sanitization failed")
               /\ security_score' = security_score - 20
        /\ (pc = "L2" /\ (code.kind \in {"deep", "nonstr"}
                          \/ (code.kind = "parse_error" /\ code.exc # "SyntaxError"))) =>
               /\ layer_results'["ast_analysis"] = "False"
               /\ LastIssueIs(issues, issues', "AST analysis failed")
               /\ security_score' = security_score - 20
        /\ (pc = "L2" /\ code.kind = "parse_error" /\ code.exc = "SyntaxError") =>
               /\ layer_results'["ast_analysis"] = "False"
               /\ LastIssueIs(issues, issues', "Syntax error")
               /\ security_score' = security_score - 25
        /\ (pc = "L5" /\ SandboxRunFailed(execution_result')) =>
               /\ layer_results'["sandbox_execution"] = "False"
               /\ LastIssueIs(issues, issues', "Sandbox execution failed")
               /\ security_score' = security_score - 15 ]_vars

\* C8 witness: the first two stages threw on a code that is not a string,
\* and 40 was deducted
C8_Witness ==
    /\ pc = "L3"
    /\ code.kind = "nonstr"
    /\ layer_results["input_sanitization"] = "False"
    /\ layer_results["ast_analysis"] = "False"
    /\ security_score = 60

SandboxWarning == "Docker sandbox not available - skipping execution validation"

\* C9: with the sandbox unavailable, layer 5 records sandbox_execution as
\* None, adds a warning, deducts nothing and adds no issue, and the pass is
\* valid whenever no critical layer failed and the score reaches the minimum.
C9_SandboxUnavailable ==
    /\ [][ (pc = "L5" /\ docker_client = "None") =>
               /\ layer_results'["sandbox_execution"] = "None"
               /\ warnings' = Append(warnings, <<SandboxWarning>>)
               /\ security_score' = security_score
               /\ issues' = issues ]_vars
    /\ []( (/\ pc = "done"
            /\ docker_client = "None"
            /\ NoCriticalLayerFailed(result[1].layer_results)
            /\ result[1].security_score >= ConfiguredMinimum) =>
               /\ result[1].is_valid
               /\ result[1].layer_results["sandbox_execution"] = "None"
               /\ \E i \in 1..Len(result[1].warnings) :
                      result[1].warnings[i] = <<SandboxWarning>> )

\* C9 witness: a valid pass without a sandbox
C9_Witness ==
    /\ pc = "done"
    /\ docker_client = "None"
    /\ result[1].is_valid
    /\ result[1].layer_results["sandbox_execution"] = "None"
    /\ HasWarning(SandboxWarning)

\* C10 as stated: a layer whose dependency is unavailable (the semantic layer
\* without an available provider, the sandbox layer without docker) records
\* not-applicable together with a warning, and never a pass.
C10_UnavailableLayerNotApplicable ==
    pc = "done" =>
        /\ fallback_order = <<>> =>
               /\ result[1].layer_results["llm_validation"] = "None"
               /\ Len(result[1].warnings) > 0
        /\ docker_client = "None" =>
               /\ result[1].layer_results["sandbox_execution"] = "None"
               /\ Len(result[1].warnings) > 0

\* the code of the pass is a string in which the response check finds a
\* destructive-command pattern
DestructiveMatch == code.kind # "nonstr" /\ code.matched # {}

\* C11 as stated: a destructive-command match is a scoring issue only; with
\* the other critical layers passing and the score at or above the minimum
\* the pass is still valid.
C11_MatchIsScoringIssueOnly ==
    (/\ pc = "done"
     /\ DestructiveMatch
     /\ result[1].layer_results["ast_analysis"] = "True"
     /\ result[1].layer_results["llm_validation"] = "True"
     /\ result[1].security_score >= ConfiguredMinimum) => result[1].is_valid

\* C11 (amended): a destructive-command match makes layer 1 record
\* input_sanitization as false, append one issue per matched pattern and
\* deduct 30 once; input_sanitization being a critical layer, the returned
\* verdict is then is_valid = false whatever the score.
C11_DestructiveMatchRejects ==
    /\ [][ (pc = "L1" /\ DestructiveMatch) =>
               /\ layer_results'["input_sanitization"] = "False"
               /\ security_score' = security_score - 30
               /\ Len(issues') = Len(issues) + Cardinality(code.matched)
               /\ \A i \in Len(issues) + 1 .. Len(issues') :
                      issues'[i][1] = "Suspicious pattern detected" ]_vars
    /\ []( (pc = "done" /\ DestructiveMatch) =>
               /\ ~result[1].is_valid
               /\ result[1].layer_results["input_sanitization"] = "False" )

\* C11 witness: a pass rejected for the match alone, the score (70) still
\* reaching the minimum and every other layer passing
C11_Witness ==
    /\ pc = "done"
    /\ DestructiveMatch
    /\ result[1].security_score = 70
    /\ result[1].security_score >= ConfiguredMinimum
    /\ \A l \in {"ast_analysis", "llm_validation", "complexity_analysis", "sandbox_execution"} :
           result[1].layer_results[l] = "True"
    /\ ~result[1].is_valid

\* every layer had what it depends on: a provider for the semantic layer, a
\* container runtime for the sandbox
AllLayersAvailable == fallback_order # <<>> /\ docker_client # "None"

AllLayersPassed(results) == \A i \in 1..Len(LayerNames) : results[LayerNames[i]] = "True"

\* C12: when all five layers are available and pass, the returned result is
\* is_valid = true, security_score = 100 and an empty issue list.
C12_AllLayersPass ==
    (/\ pc = "done"
     /\ AllLayersAvailable
     /\ AllLayersPassed(result[1].layer_results)) =>
        /\ result[1].is_valid
        /\ result[1].security_score = 100
        /\ result[1].issues = <<>>

\* C12 witness: print('hi') with a provider answering SAFE and a container
\* run that succeeds
C12_Witness ==
    /\ pc = "done"
    /\ AllLayersAvailable
    /\ code.kind = "ok"
    /\ code.nodes = <<Name("print")>>
    /\ code.matched = {}
    /\ llm_response = Returned(<<"SAFE">>)
    /\ AllLayersPassed(result[1].layer_results)
    /\ result[1].is_valid
    /\ result[1].security_score = 100
    /\ result[1].issues = <<>>

\* the code is a parsable text with the statement `import <module>`
ImportsModule(c, module) ==
    /\ c.kind = "ok"
    /\ \E i \in 1..Len(c.nodes) : c.nodes[i] = Import(<<module>>)

\* the allow-list the scanner is constructed with
AllowedImports == ConfigGet(config, "plugins.allowed_imports", default_allowed_imports)

ResultHasIssue(msg) == \E i \in 1..Len(result[1].issues) : result[1].issues[i] = msg

\* C13 as stated: for code containing `import os`, os not being in the
\* allow-list, the static scan contributes the issue "Import not in allowed
\* list: os", the score is at most 75 and is_valid is false.
C13_ImportOsNotInAllowedList ==
    (pc = "done" /\ ImportsModule(code, "os") /\ "os" \notin AllowedImports) =>
        /\ ResultHasIssue(<<"Import not in allowed list", "os">>)
        /\ result[1].security_score <= 75
        /\ ~result[1].is_valid

\* C13 (amended): for code containing `import os` the static scan contributes
\* the issue "Dangerous import: os" and no allow-list issue for os, because
\* the dangerous-module test comes first; "Import not in allowed list: m" is
\* the issue for a module m that is neither dangerous nor allowed (numpy).
\* In both cases the score is at most 75 and is_valid is false.
C13_ImportOsIsDangerousImport ==
    /\ (pc = "done" /\ ImportsModule(code, "os") /\ "os" \notin AllowedImports) =>
           /\ ResultHasIssue(<<"Dangerous import", "os">>)
           /\ ~ResultHasIssue(<<"Import not in allowed list", "os">>)
           /\ result[1].layer_results["ast_analysis"] = "False"
           /\ result[1].security_score <= 75
           /\ ~result[1].is_valid
    /\ (pc = "done" /\ ImportsModule(code, "numpy") /\ "numpy" \notin AllowedImports) =>
           /\ ResultHasIssue(<<"Import not in allowed list", "numpy">>)
           /\ result[1].layer_results["ast_analysis"] = "False"
           /\ result[1].security_score <= 75
           /\ ~result[1].is_valid

\* C13 witness: `import os` with every other layer passing ends at 75
C13_Witness ==
    /\ pc = "done"
    /\ ImportsModule(code, "os")
    /\ "os" \notin AllowedImports
    /\ ResultHasIssue(<<"Dangerous import", "os">>)
    /\ result[1].security_score = 75
    /\ ~result[1].is_valid

\* the response texts of the model that are the verdict SAFE / UNSAFE, in
\* any letter case and with surrounding white space
VerdictSafeTexts == {"SAFE", " safe\n"}
VerdictUnsafeTexts == {"UNSAFE"}

\* the provider's response is one of `texts`
ResponseIn(response, texts) ==
    /\ ~response.raised
    /\ response.value # <<>>
    /\ response.value[1] \in texts

RejectionIssue == <<"LLM identified security risks in code">>

\* C14: the semantic layer passes exactly when the provider's response is the
\* verdict SAFE, and then adds no issue; on the verdict UNSAFE it records
\* false and adds the issue of the rejection; on any other response, on no
\* response and on an error of the call it records false.
C14_PassesExactlyOnSafe ==
    [][ pc = "L3" =>
          /\ layer_results'["llm_validation"] \in {"True", "False"}
          /\ layer_results'["llm_validation"] = "True" <=>
                 ResponseIn(llm_response', VerdictSafeTexts)
          /\ layer_results'["llm_validation"] = "True" =>
                 issues' = issues /\ security_score' = security_score
          /\ ResponseIn(llm_response', VerdictUnsafeTexts) =>
                 /\ layer_results'["llm_validation"] = "False"
                 /\ issues' = Append(issues, RejectionIssue)
          /\ layer_results'["llm_validation"] = "False" =>
                 Len(issues') = Len(issues) + 1 ]_vars

\* C14 witness: the provider answered UNSAFE and the layer recorded false
\* with the issue of the rejection
C14_Witness ==
    /\ pc = "L4"
    /\ llm_response = Returned(<<"UNSAFE">>)
    /\ layer_results["llm_validation"] = "False"
    /\ issues # <<>>
    /\ issues[Len(issues)] = RejectionIssue

\* the container was started and the run took longer than the configured
\* wall-clock timeout
RunExceededTimeout ==
    /\ docker_client # "None"
    /\ execution_result # <<>>
    /\ execution_result[1].execution_time > sandbox_timeout

\* C15 as stated: a sandbox run that exceeds the configured timeout is
\* reported with success = false and an error, and the orchestrator records
\* the sandbox layer as failed and reduces the score by 15.
C15_TimeoutIsFailure ==
    [][ (pc = "L5" /\ RunExceededTimeout') =>
            /\ ~execution_result'[1].success
            /\ execution_result'[1].error # <<>>
            /\ layer_results'["sandbox_execution"] = "False"
            /\ security_score' = security_score - 15 ]_vars

\* C28: the security_score of the returned ValidationResult is within
\* 0 to 100.  The result carries the accumulated score as it is: a code whose
\* stages deduct more than 100 points is reported with a negative score.
C28_ReportedScoreWithinRange ==
    result # <<>> => (result[1].security_score >= 0 /\ result[1].security_score <= 100)

\* the limits of the complexity stage that the metrics exceed
LimitsExceeded(m) ==
    (IF m.lines > max_lines THEN 1 ELSE 0)
    + (IF m.functions > max_functions THEN 1 ELSE 0)
    + (IF m.loops + m.conditionals + m.functions > max_complexity THEN 1 ELSE 0)

\* the code parses and holds a `while True` loop without break
HasFlaggedLoop(c) == c.kind \in {"ok", "deep"} /\ c.metrics.while_true_no_break > 0

\* C30: a loop flagged as a potential infinite loop is a warning only: the
\* complexity stage passes exactly when no limit is exceeded, the score drops
\* by 10 for each exceeded limit and by nothing for the flagged loop, and the
\* flag never enters the issue list.
C30_FlaggedLoopIsWarningOnly ==
    [][ (pc = "L4" /\ HasFlaggedLoop(code)) =>
            /\ layer_results'["complexity_analysis"] = PyBool(LimitsExceeded(code.metrics) = 0)
            /\ security_score' = security_score - 10 * LimitsExceeded(code.metrics)
            /\ Len(issues') = Len(issues) + LimitsExceeded(code.metrics)
            /\ \A i \in 1..Len(issues') : issues'[i][1] # "Potential infinite loop detected" ]_vars

\* C30 witness: a code with a flagged loop and too many functions went
\* through the complexity stage: the stage failed for the functions, 10 points
\* were taken once, and the flag is among the warnings
C30_Witness ==
    /\ pc = "L5"
    /\ HasFlaggedLoop(code)
    /\ LimitsExceeded(code.metrics) = 1
    /\ layer_results["complexity_analysis"] = "False"
    /\ \E i \in 1..Len(warnings) : warnings[i] = <<"Potential infinite loop detected">>
    /\ \E i \in 1..Len(issues) : issues[i][1] = "Too many functions"

\* the code is one ast.parse refuses
DoesNotParse(c) == c.kind \in {"parse_error", "nonstr"}

\* C31 as stated: for every code that does not parse, scan_code returns
\* passed = false with at least one violation.  It does so for a SyntaxError
\* only; another exception of ast.parse leaves scan_code as it was raised.
C31_ParseFailureReturnsViolation ==
    [][ (pc = "L2" /\ DoesNotParse(code)) =>
            LET r == scan_code(code, ConfigGet(config, "plugins.allowed_imports",
                                               default_allowed_imports))
            IN  /\ ~r.raised
                /\ ~r.value.valid
                /\ Len(r.value.issues) >= 1
                /\ issues' = issues \o r.value.issues ]_vars

\* C31: the static scan fails closed for code that does not parse.  For a
\* SyntaxError scan_code returns passed = false with the one violation
\* "Syntax error" and the stage costs 25; for any other exception of ast.parse
\* scan_code raises, the handler of the stage adds "AST analysis failed" and
\* the stage costs 20.  Either way the layer is recorded as failed and the
\* returned is_valid is false.
C31_ParseFailureFailsClosed ==
    /\ [][ (pc = "L2" /\ DoesNotParse(code)) =>
               /\ layer_results'["ast_analysis"] = "False"
               /\ Len(issues') = Len(issues) + 1
               /\ IF code.exc = "SyntaxError"
                  THEN /\ issues'[Len(issues')] = <<"Syntax error", code.err>>
                       /\ security_score' = security_score - 25
                  ELSE /\ issues'[Len(issues')] = <<"AST analysis failed", code.err>>
                       /\ security_score' = security_score - 20 ]_vars
    /\ []( (result # <<>> /\ DoesNotParse(code)) =>
               /\ result[1].layer_results["ast_analysis"] = "False"
               /\ ~result[1].is_valid )

\* C31 witness: a code on which ast.parse ran out of recursion depth was
\* rejected, with the handler's issue and every other critical layer passed
C31_Witness ==
    /\ pc = "done"
    /\ code.kind = "parse_error"
    /\ code.exc = "RecursionError"
    /\ result[1].layer_results["ast_analysis"] = "False"
    /\ result[1].layer_results["input_sanitization"] = "True"
    /\ result[1].layer_results["llm_validation"] = "True"
    /\ \E i \in 1..Len(result[1].issues) : result[1].issues[i][1] = "AST analysis failed"
    /\ ~result[1].is_valid

\* C36: every potential-infinite-loop flag of the complexity analyzer is in
\* the warnings of the returned result, whether or not the analyzer also
\* reported an exceeded ceiling.
C36_EveryLoopFlagIsReported ==
    (/\ pc = "done"
     /\ result # <<>>
     /\ code.kind \in {"ok", "deep"}
     /\ "complexity_analysis" \in DOMAIN result[1].layer_results)
    => CountIssues(result[1].warnings, {"Potential infinite loop detected"})
           = code.metrics.while_true_no_break

\* C37: a result with is_valid false states at least one issue, for every
\* configured minimum score up to 100.
C37_RejectionStatesACause ==
    (pc = "done" /\ result # <<>> /\ ConfiguredMinimum <= 100 /\ ~result[1].is_valid)
        => result[1].issues # <<>>

\* C37 witness: under a configured minimum of 100 a pass with no critical
\* failure was rejected for a score of 70 or more; no "score too low" issue
\* was added, and the issue of the stage that took the points is the cause
C37_Witness ==
    /\ pc = "done"
    /\ result # <<>>
    /\ ConfiguredMinimum = 100
    /\ ~result[1].is_valid
    /\ NoCriticalLayerFailed(result[1].layer_results)
    /\ result[1].security_score >= 70
    /\ result[1].issues # <<>>
    /\ \A i \in 1..Len(result[1].issues) : result[1].issues[i][1] # "Security score too low"

ScoreTooLowReported(r) ==
    \E i \in 1..Len(r.issues) : r.issues[i][1] = "Security score too low"

\* C38: for every configured minimum, a result with is_valid true has no
\* "Security score too low" issue, and the issue is reported exactly when the
\* score is below the configured minimum.
C38_ScoreTooLowFollowsConfiguredMinimum ==
    (pc = "done" /\ result # <<>>) =>
        /\ result[1].is_valid => ~ScoreTooLowReported(result[1])
        /\ ScoreTooLowReported(result[1]) <=> result[1].security_score < ConfiguredMinimum

\* ------------------------------------------------------------------------
\* Properties of HistoryManager
\* ------------------------------------------------------------------------
\* C39: after any sequence of save_command, rollback_command,
\* backup_system_state, restore_system_backup and delete_command the number
\* of history entries does not exceed the configured history.max_entries.
C39_HistoryNeverExceedsMaxEntries ==
    Len(history_data) <= DictGet(history_config, "max_entries", default_max_entries)

\* ------------------------------------------------------------------------
\* Properties of scan_code called alone
\* ------------------------------------------------------------------------
\* the names the scanner flags among those of the model: a dangerous
\* function, a dangerous module, a module outside the allowed list
FlaggedNames == {"eval", "os", "sys", "numpy"}

\* the names a node puts before the scanner: the called function, the module
\* of a called attribute, each imported module, the module imported from
RECURSIVE ConstructsOf(_)
ConstructsOf(nodes) ==
    IF nodes = <<>> THEN <<>>
    ELSE LET node == Head(nodes)
             here == IF node.type = "Call" THEN <<node.names[1]>> ELSE node.names
         IN  here \o ConstructsOf(Tail(nodes))

\* the flagged constructs of a code, in source order
FlaggedConstructs(nodes) == SelectSeq(ConstructsOf(nodes), LAMBDA n : n \in FlaggedNames)

\* scan_code returned exactly one violation per flagged construct, in order
OneViolationPerConstruct(c, outcome) ==
    LET flagged == FlaggedConstructs(c.nodes)
    IN  /\ ~outcome.raised
        /\ outcome.value.valid = (Len(flagged) = 0)
        /\ Len(outcome.value.issues) = Len(flagged)
        /\ \A i \in 1..Len(flagged) : outcome.value.issues[i][2] = flagged[i]

CallFailed(call) ==
    call.event \in {"http_error", "timeout", "connection_error", "no_api_key", "malformed"}

\* the provider function raised: every failure but the local endpoint's
\* reply without a 'response' field
CallRaised(call) ==
    CallFailed(call) /\ ~(call.provider = "local" /\ call.event = "malformed")

\* C34 as stated: query returns None whenever a provider call failed.  After
\* a reply without 'response' from the local endpoint the loop goes on, and
\* the text of the next provider is returned.
C34_NoneWheneverACallFailed ==
    query_pc = "returned" =>
        ((\E i \in 1..Len(tried) : CallFailed(tried[i])) => query_returned = << <<>> >>)

\* C34: query always returns, a text or None.  When a provider function
\* raises (HTTP error status, timeout, connection error, missing API key, a
\* reply without the expected fields from a remote provider), query returns
\* None and that provider is the last one tried.  A provider that returns an
\* empty text, as the local endpoint does for a reply without 'response',
\* does not end the query: the next configured provider is tried.  A text is
\* returned only as the reply of the last provider tried.
C34_RaiseEndsQueryWithNone ==
    /\ []( query_pc = "returned" =>
             /\ Len(query_returned) = 1
             /\ \A i \in 1..Len(tried) :
                    CallRaised(tried[i]) => (i = Len(tried) /\ query_returned[1] = <<>>)
             /\ query_returned[1] # <<>> =>
                    (tried # <<>> /\ tried[Len(tried)].event = "text"
                       /\ query_returned[1] = <<"SAFE">>) )
    /\ [][ (query_pc = "for_provider" /\ Len(tried') > Len(tried)
              /\ ~CallRaised(tried'[Len(tried')]) /\ tried'[Len(tried')].event # "text")
           => (query_pc' = "for_provider" /\ query_returned' = <<>>) ]_vars

\* C34 witness: two providers are configured, the first timed out, None was
\* returned and the second was never called
C34_Witness ==
    /\ query_pc = "returned"
    /\ llm_providers = <<"gemini", "openai">>
    /\ tried = << [provider |-> "gemini", event |-> "timeout"] >>
    /\ query_returned = << <<>> >>

\* ------------------------------------------------------------------------
\* Properties of the sandbox
\* ------------------------------------------------------------------------
\* C26: with the substrate unavailable, execute_code_safely returns (it does
\* not raise) a result with success false and the error "Docker sandbox not
\* available", and neither a directory nor a container run was made for it.
C26_UnavailableReturnsNotAvailable ==
    [][ (sandbox_pc = "idle" /\ docker_client = "None" /\ executions' # executions) =>
            /\ sandbox_pc' = "returned"
            /\ sandbox_result' = << [success |-> FALSE,
                                     error |-> <<"Docker sandbox not available">>,
                                     exit_code |-> -1,
                                     execution_time |-> 0] >>
            /\ UNCHANGED <<temp_dirs, containers, container_runs>> ]_vars

\* C26 witness: a second call on a sandbox without Docker has returned the
\* "not available" result, and no container run was ever made
C26_Witness ==
    /\ docker_client = "None"
    /\ sandbox_pc = "returned"
    /\ executions = 2
    /\ container_runs = 0
    /\ ~sandbox_result[1].success
    /\ sandbox_result[1].error = <<"Docker sandbox not available">>

\* C27: once execute_code_safely has returned, the temporary directory of the
\* execution is gone and no container made for it exists.  A container whose
\* start was refused is never removed: the run raises before its removal, and
\* cleanup looks for a label the containers are not given.
C27_NothingLeftAfterReturn ==
    sandbox_pc = "returned" =>
        /\ executions \notin temp_dirs
        /\ ~\E c \in containers : c.execution = executions

\* ------------------------------------------------------------------------
\* Properties of the evolve command
\* ------------------------------------------------------------------------
\* validate_code returned True for the code c in the running invocation
ValidatedInThisInvocation(c) ==
    \E i \in 1..Len(validate_calls) :
        validate_calls[i].code = c /\ validate_calls[i].value

\* the list grew by the one element c
GrewBy(old, new, c) == new = Append(old, c)

ScanAlone(c) == scan_code(c, default_allowed_imports).value

\* C24: each of two concurrent requests gets from layer 2 what it would get
\* alone: the verdict of the scan of its own code, the violations of its own
\* code as issues, and the score they cost.  The scanner keeps its violation
\* list in an attribute of the one scanner object, so a request can return
\* the list of the other request.
C24_ConcurrentRequestsAsAlone ==
    \A r \in DOMAIN requests :
        requests[r].pc = "done" =>
            LET alone == ScanAlone(requests[r].code)
            IN  /\ requests[r].layer_results["ast_analysis"] = PyBool(alone.valid)
                /\ requests[r].issues = (IF alone.valid THEN <<>> ELSE alone.issues)
                /\ requests[r].security_score =
                       (IF alone.valid THEN 100 ELSE 100 - ast_penalty)

\* C33: an error raised by the LLM check does not block the code: when
\* validate_code reaches the LLM check, it returns True if the check raised
\* and the verdict of the check otherwise.
C33_LLMErrorDoesNotBlock ==
    \A i \in 1..Len(validate_calls) :
        LET call == validate_calls[i]
        IN  /\ call.llm = "raises" => call.value
            /\ call.llm = "True" => call.value
            /\ call.llm = "False" => ~call.value

\* C33 witness: the LLM check raised, validate_code returned True and the
\* code was executed
C33_Witness ==
    /\ evolve_pc = "done"
    /\ Len(validate_calls) = 1
    /\ validate_calls[1].llm = "raises"
    /\ validate_calls[1].value
    /\ executed # <<>>
    /\ executed[Len(executed)] = validate_calls[1].code

\* ------------------------------------------------------------------------
\* Properties of the provider router
\* ------------------------------------------------------------------------
\* a remote provider without an API key; the local provider needs none
CredentialAbsent(p) == p.kind = "remote" /\ p.api_key = ""

\* the fallback order names no disabled provider and none without credential
OrderHasOnlyUsableProviders(order, provs) ==
    \A i \in 1..Len(order) :
        provs[order[i]].enabled /\ ~CredentialAbsent(provs[order[i]])

IsAvailableByPriority(order, provs) ==
    /\ SeqToSet(order) = {name \in DOMAIN provs : provider_is_available(provs[name])}
    /\ \A i, j \in 1..Len(order) : i < j =>
           /\ order[i] # order[j]
           /\ provs[order[i]].priority <= provs[order[j]].priority

\* names that are in both sequences come in the same order in both
SameRelativeOrder(old, new) ==
    \A i, j \in 1..Len(old), k, l \in 1..Len(new) :
        (i < j /\ old[i] = new[k] /\ old[j] = new[l]) => k < l

\* C17: after construction and after each refresh_availability the fallback
\* order is exactly the available providers in ascending priority; when the
\* top-priority provider has been disabled, the refresh removes it and
\* leaves the remaining providers in the same relative order.
C17_OrderIsAvailableByPriority ==
    /\ IsAvailableByPriority(fallback_order, providers)
    /\ [][ refresh_availability =>
             /\ IsAvailableByPriority(fallback_order', providers)
             /\ SameRelativeOrder(fallback_order, fallback_order')
             /\ (/\ fallback_order # <<>>
                 /\ ~providers[Head(fallback_order)].enabled) =>
                    \A i \in 1..Len(fallback_order') :
                        fallback_order'[i] # Head(fallback_order) ]_vars

\* C17 witness: the top-priority provider (gemini, with a key) is disabled,
\* the stored order is the computed one, and it holds the three remaining
\* providers in priority order
C17_Witness ==
    /\ router_pc = "idle"
    /\ providers["gemini"].api_key # ""
    /\ ~providers["gemini"].enabled
    /\ providers["gemini"].priority = 1
    /\ fallback_order = available_sorted(providers)
    /\ fallback_order = <<"openai", "anthropic", "local">>

\* how many provider.query calls of the running request went to `name`
CallsTo(log, name) == Cardinality({i \in 1..Len(log) : log[i].provider = name})

\* the provider whose turn it is in the outer loop
CurrentProvider == fallback_order[provider_index]

\* the error texts of the authentication class: they contain "API key" or,
\* in any letter case, "authentication"
AuthenticationClassTexts ==
    {"API error: 400 - API key not valid", "API error: 401 - Authentication failed"}

\* the retry loop of the current provider ends without a success
RetryLoopEnds == router_pc = "for_attempt" /\ router_pc' = "for_provider"

\* C18: when the retry loop of a provider ends and its last error is not of
\* the authentication class, the provider has been called exactly
\* max_retries times (3 when max_retries = 3), all of them failed, and these
\* calls are the last max_retries calls of the request: no other provider
\* was called in between.
C18_ExactlyMaxRetriesCalls ==
    [][ (RetryLoopEnds /\ last_error' \notin AuthenticationClassTexts) =>
            /\ CallsTo(calls', CurrentProvider) = max_retries
            /\ Len(calls') >= max_retries
            /\ \A i \in (Len(calls') - max_retries + 1) .. Len(calls') :
                   /\ calls'[i].provider = CurrentProvider
                   /\ ~calls'[i].success
            /\ attempt' = max_retries ]_vars

\* C18 witness: with max_retries = 3 the first provider failed three times
\* with a server error and the router has gone on to call the second one
C18_Witness ==
    /\ max_retries = 3
    /\ Len(fallback_order) >= 2
    /\ provider_index = 2
    /\ Len(calls) = 4
    /\ \A i \in 1..3 : calls[i] = [provider |-> fallback_order[1], success |-> FALSE]
    /\ calls[4].provider = fallback_order[2]
    /\ last_error = "API error: 500 - overloaded"

\* a provider.query call is made in this step
CallMade == router_pc = "for_attempt" /\ Len(calls') = Len(calls) + 1

\* C19: a failed call whose error text is of the authentication class ends
\* the retry loop of that provider at once, without a wait; when it was the
\* first attempt, the provider has been called exactly once in the request,
\* the next step of the request takes the next name of the fallback order
\* (or returns when there is none), and the provider is not called again.
C19_AuthenticationErrorStopsRetries ==
    /\ [][ (/\ CallMade
            /\ ~calls'[Len(calls')].success
            /\ last_error' \in AuthenticationClassTexts) =>
               /\ router_pc' = "for_provider"
               /\ sleeps' = sleeps
               /\ provider_index' = provider_index
               /\ attempt = 0 => CallsTo(calls', CurrentProvider) = 1 ]_vars
    /\ [][ router_pc = "for_provider" =>
               /\ calls' = calls
               /\ sleeps' = sleeps
               /\ \/ provider_index' = provider_index + 1
                  \/ router_pc' = "returned" ]_vars
    /\ [][ CallMade => /\ provider_index >= 1
                       /\ calls'[Len(calls')].provider = CurrentProvider ]_vars

\* C19 witness: with max_retries = 3 the first provider answered its first
\* call with a rejected key; it was called once, nothing was waited for, and
\* the router has called the second provider
C19_Witness ==
    /\ max_retries = 3
    /\ Len(fallback_order) >= 2
    /\ provider_index = 2
    /\ calls = << [provider |-> fallback_order[1], success |-> FALSE],
                  [provider |-> fallback_order[2], success |-> TRUE] >>
    /\ sleeps = 0
    /\ last_error = "API error: 400 - API key not valid"
    /\ router_pc = "returned"

\* position of a name in the fallback order (0 when it is not in it)
OrderIndex(name) ==
    IF \E i \in 1..Len(fallback_order) : fallback_order[i] = name
    THEN CHOOSE i \in 1..Len(fallback_order) : fallback_order[i] = name
    ELSE 0

\* C20: the calls of a request follow the fallback order: a call goes to the
\* provider whose turn it is, no call goes to a provider that comes before
\* one already called, and a provider that comes later is called only after
\* the retry loop of the earlier one has ended.  The first successful call
\* is the last call of the request and its response is what is returned.
C20_StrictOrderFirstSuccess ==
    /\ []( /\ \A i, j \in 1..Len(calls) : i < j =>
                  /\ OrderIndex(calls[i].provider) >= 1
                  /\ OrderIndex(calls[i].provider) <= OrderIndex(calls[j].provider)
                  /\ ~calls[i].success
           /\ \A i \in 1..Len(calls) : OrderIndex(calls[i].provider) <= provider_index
           /\ (calls # <<>> /\ calls[Len(calls)].success) =>
                  /\ router_pc = "returned"
                  /\ returned_response =
                         <<LLMResponse(calls[Len(calls)].provider, TRUE, <<>>)>>
           /\ (returned_response # <<>> /\ returned_response[1].success) =>
                  /\ calls # <<>>
                  /\ calls[Len(calls)].success )
    /\ [][ CallMade => /\ calls'[Len(calls')].provider = CurrentProvider
                       /\ returned_response = <<>> ]_vars
    /\ [][ router_pc = "returned" => calls' = <<>> ]_vars

\* C20 witness: the first provider used up its three attempts, the second
\* one succeeded at its second attempt, and the third one was never called
C20_Witness ==
    /\ router_pc = "returned"
    /\ Len(fallback_order) >= 3
    /\ max_retries = 3
    /\ Len(calls) = 5
    /\ \A i \in 1..3 : calls[i] = [provider |-> fallback_order[1], success |-> FALSE]
    /\ calls[4] = [provider |-> fallback_order[2], success |-> FALSE]
    /\ calls[5] = [provider |-> fallback_order[2], success |-> TRUE]
    /\ returned_response = <<LLMResponse(fallback_order[2], TRUE, <<>>)>>

\* the request has returned the failure of the exhausted outer loop
ReturnedAllFailed ==
    /\ router_pc = "returned"
    /\ returned_response[1].provider = "failed"

\* C21: when every provider of the fallback order has been gone through
\* without a success, the request returns success = false, and the error
\* text is "All providers failed. Last error: " followed by the error of the
\* last provider call of this request (by "Unknown error" when all names
\* were skipped and no call was made).
C21_FailureStatesLastError ==
    /\ []( (/\ router_pc = "returned"
            /\ fallback_order # <<>>
            /\ ~(calls # <<>> /\ calls[Len(calls)].success)) => ReturnedAllFailed )
    /\ []( ReturnedAllFailed =>
             /\ ~returned_response[1].success
             /\ provider_index = Len(fallback_order)
             /\ Len(returned_response[1].error) = 2
             /\ returned_response[1].error[1] = "All providers failed. Last error"
             /\ calls # <<>> =>
                    /\ provider_response # <<>>
                    /\ ~provider_response[1].success
                    /\ provider_response[1].provider = calls[Len(calls)].provider
                    /\ provider_response[1].error # <<>>
                    /\ returned_response[1].error[2] = provider_response[1].error[1]
             /\ calls = <<>> => returned_response[1].error[2] = "Unknown error" )

\* C21 witness: two providers, the first failed three times with a server
\* error, the second had its key rejected; the returned failure states the
\* rejected key
C21_Witness ==
    /\ ReturnedAllFailed
    /\ Len(fallback_order) = 2
    /\ max_retries = 3
    /\ Len(calls) = 4
    /\ calls[3].provider = fallback_order[1]
    /\ calls[4].provider = fallback_order[2]
    /\ returned_response[1].error =
           <<"All providers failed. Last error", "API error: 400 - API key not valid">>

\* a request is running
RequestRunning == router_pc \in {"for_provider", "for_attempt"}

\* C23: a request makes at most len(fallback_order) * max_retries provider
\* calls and at most len(fallback_order) * (max_retries - 1) waits, and it
\* always returns.
C23_RequestBoundedAndTerminates ==
    /\ []( router_pc # "idle" =>
             /\ Len(calls) <= Len(fallback_order) * max_retries
             /\ sleeps <= Len(fallback_order) * (max_retries - 1)
             /\ Len(calls) <= provider_index * max_retries
             /\ sleeps <= provider_index * (max_retries - 1) )
    /\ (RequestRunning ~> router_pc = "returned")

\* C23 witness: a request that used its whole budget: every provider of a
\* fallback order of at least two names failed three times
C23_Witness ==
    /\ router_pc = "returned"
    /\ max_retries = 3
    /\ Len(fallback_order) >= 2
    /\ Len(calls) = Len(fallback_order) * max_retries
    /\ sleeps = Len(fallback_order) * (max_retries - 1)
    /\ ~returned_response[1].success

\* the provider cannot be used now: it is disabled, its credential is
\* absent, or it is the local provider and its endpoint does not answer
Unusable(p) == ~p.enabled \/ CredentialAbsent(p) \/ (p.kind = "local" /\ ~p.reachable)

\* C35: a request never calls query on a provider that is unusable when its
\* turn comes, whatever the stored fallback order says: the outer loop takes
\* the name, makes no call and goes on to the next name.
C35_UnavailableProviderSkipped ==
    /\ []( \A i \in 1..Len(calls) : ~Unusable(providers[calls[i].provider]) )
    /\ [][ (/\ router_pc = "for_provider"
            /\ provider_index < Len(fallback_order)
            /\ Unusable(providers[fallback_order[provider_index + 1]]))
           => (/\ router_pc' = "for_provider"
               /\ provider_index' = provider_index + 1
               /\ calls' = calls) ]_vars

\* C35 witness: the first provider of the stored order was disabled after the
\* last refresh; the request made no call to it and returned the answer of
\* the second
C35_Witness ==
    /\ router_pc = "returned"
    /\ Len(fallback_order) >= 2
    /\ ~providers[fallback_order[1]].enabled
    /\ calls # <<>>
    /\ \A i \in 1..Len(calls) : calls[i].provider = fallback_order[2]
    /\ returned_response[1].success

\* ------------------------------------------------------------------------
\* Properties of the provider statistics
\* ------------------------------------------------------------------------
\* no query call is in progress
AllReturned == \A t \in Threads : threads[t].at = "idle"

\* only thread 1 has called so far: the calls came one after the other
OneCaller == threads[2].made = 0 /\ threads[2].at = "idle"

\* C22 as stated: every call of query, whatever its outcome and also when it
\* is refused because the provider is not available, adds 1 to the request
\* count, its latency to the total, and 1 to the error count iff it failed.
C22_EveryCallRecordedOnce ==
    (AllReturned /\ OneCaller) =>
        /\ stats.request_count = finished.calls
        /\ stats.total_response_time = finished.latency
        /\ stats.error_count =
               finished.failed_calls + (finished.calls - finished.backend_calls)

\* C25 as stated: when the backend calls of several threads to the same
\* provider have finished, in any interleaving, the request count has grown
\* by the number of these calls and the error count by the number of failed
\* ones.
C25_NoLostUpdate ==
    AllReturned =>
        /\ stats.request_count = finished.backend_calls
        /\ stats.error_count = finished.failed_calls

====
